---- MODULE Spec2Model ----
(***************************************************************************)
(* State-machine model of the b3j0f.schema engine: schema instances as     *)
(* property descriptors (base.py), their validation, accessors and dump,   *)
(* and the schema registries (registry.py, reg.py).                        *)
(*                                                                         *)
(* The sources are Python 2 (elementary.py uses the literal 0l, the        *)
(* registry keeps objects that define __eq__ in a set): `a != b` on an     *)
(* object that defines only __eq__ is an identity comparison, and set      *)
(* membership of schemas is by identity.                                   *)
(***************************************************************************)
EXTENDS Integers, Sequences, FiniteSets, TLC

(***************************************************************************)
(* Bounds of the model.                                                    *)
(***************************************************************************)
MaxInt == 1        \* integer data values are 0..MaxInt
MaxFresh == 2      \* number of instances constructed at run time

(***************************************************************************)
(* Python values.  Every value is a record of the same shape:              *)
(*   k  the kind ("none", "bool", "int", "str", "obj", "dyn", "this", ...)  *)
(*   n  the payload of a bool/int, or the identity of an object            *)
(*   s  the payload of a string                                            *)
(*   d  for a DynamicValue, the kind of the value its call returns         *)
(***************************************************************************)
None == [k |-> "none", n |-> 0, s |-> "", d |-> ""]
Absent == [k |-> "absent", n |-> 0, s |-> "", d |-> ""]
BoolV(b) == [k |-> "bool", n |-> IF b THEN 1 ELSE 0, s |-> "", d |-> ""]
IntV(i) == [k |-> "int", n |-> i, s |-> "", d |-> ""]
StrV(t) == [k |-> "str", n |-> 0, s |-> t, d |-> ""]
ObjV(o) == [k |-> "obj", n |-> o, s |-> "", d |-> ""]
DynV(v) == [k |-> "dyn", n |-> v.n, s |-> v.s, d |-> v.k]
\* A class given or returned as a value, by its name.
ClassV(c) == [k |-> "class", n |-> 0, s |-> c, d |-> ""]
\* This(default=t, nullable=b): the placeholder for the class being declared,
\* carrying the arguments its constructor is to be called with.
ThisV(t, b) == [k |-> "this", n |-> IF b THEN 1 ELSE 0, s |-> t, d |-> ""]

\* DynamicValue.__call__: the value the wrapped zero-argument function returns.
Call(v) == [k |-> v.d, n |-> v.n, s |-> v.s, d |-> ""]

\* `if isinstance(value, DynamicValue): value = value()`
Resolve(v) == IF v.k = "dyn" THEN Call(v) ELSE v

\* Python truth value of a value (`x or y`, `not x`, `if x`).
Truthy(v) ==
    CASE v.k = "none" -> FALSE
      [] v.k = "bool" -> v.n = 1
      [] v.k = "int" -> v.n # 0
      [] v.k = "str" -> v.s # ""
      [] OTHER -> TRUE

(***************************************************************************)
(* Objects.  The descriptors D_*, E_*, P_* and T_* are the schema          *)
(* instances held as class attributes once a class's content is resolved;  *)
(* the others are instances and plain data objects.                        *)
(***************************************************************************)
D_name == 1        \* _Schema.name      (base.py:63)
D_uuid == 2        \* _Schema.uuid      (base.py:64)
D_nullable == 3    \* _Schema.nullable  (base.py:69)
D_default == 4     \* _Schema.default   (base.py:66, wrapped at base.py:342)
D_ref == 5         \* RefSchema.ref     (base.py:280)
E_nullable == 6    \* ElementarySchema.nullable (elementary.py:56)
P_x == 7           \* Point.x = IntegerSchema()
P_y == 8           \* Point.y = IntegerSchema()
T_test == 9        \* Test.test = Schema() on a plain class (test/base.py:246)
p1 == 10           \* Point()
s1 == 11           \* Schema()
s2 == 12           \* Schema()
dp1 == 13          \* DataPoint()
r1 == 14           \* RefSchema()
o1 == 15           \* plain object with x = 1, y = 1
o2 == 16           \* plain object with x = 1 only
o3 == 17           \* plain object with x = "a", y = 1
t1 == 18           \* Test(), a plain container
T_lazy == 19       \* Test.lazy = IntegerSchema(default=DynamicValue(lambda: 1))
Conf == 20         \* the class Conf(Schema), declared with __update_content__ = False
C_a1 == 21         \* the schemas updatecontent makes for Conf.a, in the order made
C_a2 == 22
C_d1 == 23         \* the schemas updatecontent makes for Conf.default
C_d2 == 24
L_default == 25    \* Lazy.default = DynamicValue(lambda: 1), wrapped at base.py:342
lz1 == 26          \* Lazy(), constructed at run time
C_t1 == 27         \* the instances of Conf updatecontent makes for a This member
C_t2 == 28
T_custom == 29     \* Test.test = Schema(fget, fset, fdel) (test/base.py:270-283)
FirstFresh == 30   \* instances constructed at run time
Objs == 1 .. (FirstFresh + MaxFresh - 1)
Made == {C_a1, C_a2, C_d1, C_d2, C_t1, C_t2}
Fresh == FirstFresh .. (FirstFresh + MaxFresh - 1)
NoObj == 0         \* `None` where an object is expected (owner=None)

(***************************************************************************)
(* Classes.  Parent gives the single-inheritance chain each class has in   *)
(* the sources; "Number" is the abstract class int and bool are registered *)
(* under, "Obj" a plain data class, "Test" a plain class that declares a   *)
(* schema attribute.                                                       *)
(***************************************************************************)
Parent(c) ==
    CASE c = "bool" -> "int"
      [] c = "int" -> "Number"
      [] c = "_Schema" -> "property"
      [] c = "RefSchema" -> "_Schema"
      [] c = "Schema" -> "_Schema"
      [] c = "ElementarySchema" -> "Schema"
      [] c = "BooleanSchema" -> "ElementarySchema"
      [] c = "StringSchema" -> "ElementarySchema"
      [] c = "NumberSchema" -> "ElementarySchema"
      [] c = "IntegerSchema" -> "NumberSchema"
      [] c = "Point" -> "Schema"
      [] c = "Lazy" -> "Schema"
      [] c = "Conf" -> "Schema"
      [] c = "DataPoint" -> "Point"
      [] OTHER -> "object"

Classes ==
    {"object", "NoneType", "Number", "int", "bool", "str", "DynamicValue", "Obj", "Test",
     "property", "_Schema", "RefSchema", "Schema", "ElementarySchema", "BooleanSchema",
     "StringSchema", "NumberSchema", "IntegerSchema", "Point", "DataPoint", "MetaSchema",
     "Lazy", "Conf", "This"}

RECURSIVE Ancestors(_)
\* The classes c inherits from, c included.
Ancestors(c) == IF c = "object" THEN {c} ELSE {c} \cup Ancestors(Parent(c))

Mro == [c \in Classes |-> Ancestors(c)]

\* issubclass(c, b)
IsSubclass(c, b) == b \in Mro[c]

\* The classes created by the metaclass MetaSchema: Schema and its subclasses.
IsMeta(c) == IsSubclass(c, "Schema")

\* cls.__data_types__
DataTypes(c) ==
    CASE c = "BooleanSchema" -> {"bool"}
      [] c = "StringSchema" -> {"str"}
      [] c = "NumberSchema" -> {"Number"}
      [] c = "IntegerSchema" -> {"int"}
      [] c = "DataPoint" -> {"Obj"}
      [] OTHER -> {}

\* cls.__data_types__ as the list it is declared as.
DataTypesSeq(c) ==
    IF DataTypes(c) = {} THEN <<>> ELSE <<CHOOSE dt \in DataTypes(c) : TRUE>>

\* cls.required: the names of the nested schemas that are mandatory.
Required(c) == IF IsSubclass(c, "Point") THEN {"x", "y"} ELSE {}

\* The class of each object.
ClassOf(o) ==
    CASE o \in {D_name, D_uuid} -> "StringSchema"
      [] o \in {D_nullable, E_nullable} -> "BooleanSchema"
      [] o \in {D_default, r1, C_d1, C_d2, L_default} -> "RefSchema"
      [] o = D_ref -> "_Schema"
      [] o \in {P_x, P_y, T_lazy, C_a1, C_a2} -> "IntegerSchema"
      [] o \in {T_test, T_custom, s1, s2} -> "Schema"
      [] o = p1 \/ o \in Fresh -> "Point"
      [] o = dp1 -> "DataPoint"
      [] o \in {o1, o2, o3} -> "Obj"
      [] o = t1 -> "Test"
      [] o = Conf -> "MetaSchema"
      [] o = lz1 -> "Lazy"
      [] o \in {C_t1, C_t2} -> "Conf"
      [] OTHER -> "object"

ClsTab == [o \in Objs |-> ClassOf(o)]

\* type(o)
Cls(o) == ClsTab[o]

\* type(v) for a value.
TypeOf(v) ==
    CASE v.k = "none" -> "NoneType"
      [] v.k = "bool" -> "bool"
      [] v.k = "int" -> "int"
      [] v.k = "str" -> "str"
      [] v.k = "dyn" -> "DynamicValue"
      [] v.k = "obj" -> Cls(v.n)
      [] v.k = "this" -> "This"
      [] OTHER -> "object"

\* isinstance(v, c) when the metaclass of c takes no part: type(v) inherits from c.
NominalInstance(v, c) == IsSubclass(TypeOf(v), c)

\* isinstance(v, c): the exact type first, then type(c).__instancecheck__;
\* MetaSchema.__instancecheck__ answers isinstance(v, _Schema) for every class
\* it created.
IsInstance(v, c) ==
    IF TypeOf(v) = c THEN TRUE
    ELSE IF IsMeta(c) THEN NominalInstance(v, "_Schema")
    ELSE NominalInstance(v, c)

IsSchemaObj(o) == o \in Objs /\ IsSubclass(Cls(o), "_Schema")

(***************************************************************************)
(* Nested schemas of a class: the public class attributes that are schema  *)
(* instances (getschemas), by attribute name.  doc and version behave as   *)
(* name does (a string leaf) and are left out.                             *)
(***************************************************************************)
BaseAttrs ==
    [a \in {"name", "uuid", "nullable", "default"} |->
        CASE a = "name" -> D_name
          [] a = "uuid" -> D_uuid
          [] a = "nullable" -> D_nullable
          [] OTHER -> D_default]

NestedOf(c) ==
    CASE c = "Test" -> [a \in {"test", "lazy"} |-> IF a = "test" THEN T_test ELSE T_lazy]
      [] c = "RefSchema" ->
            [a \in DOMAIN BaseAttrs \cup {"ref"} |->
                IF a = "ref" THEN D_ref ELSE BaseAttrs[a]]
      [] IsSubclass(c, "ElementarySchema") ->
            [a \in DOMAIN BaseAttrs |->
                IF a = "nullable" THEN E_nullable ELSE BaseAttrs[a]]
      [] IsSubclass(c, "Point") ->
            [a \in DOMAIN BaseAttrs \cup {"x", "y"} |->
                CASE a = "x" -> P_x
                  [] a = "y" -> P_y
                  [] OTHER -> BaseAttrs[a]]
      [] c = "Lazy" ->
            [a \in DOMAIN BaseAttrs |-> IF a = "default" THEN L_default ELSE BaseAttrs[a]]
      [] IsSubclass(c, "_Schema") -> BaseAttrs
      [] OTHER -> [a \in {} |-> NoObj]

ClassAttrsTab == [c \in Classes |-> NestedOf(c)]

\* The schemas held as attributes of class c, by attribute name.
ClassAttrs(c) == ClassAttrsTab[c]

\* _Schema.getschemas
getschemas(c) == ClassAttrs(c)

(***************************************************************************)
(* The attribute store.  slots[o] is the instance dictionary of object o:  *)
(* a function from the attribute names present on o to their values.  A   *)
(* schema keeps its live value on its container under a private name.      *)
(***************************************************************************)
SetKey(f, key, v) == [x \in DOMAIN f \cup {key} |-> IF x = key THEN v ELSE f[x]]
DelKey(f, key) == [x \in DOMAIN f \ {key} |-> f[x]]

UuidTab == [o \in Objs |-> "u" \o ToString(o)]

\* uuid4(): a string no other object has; the model names it after the object.
UuidOf(o) == UuidTab[o]

EmptyFn == [x \in {} |-> NoObj]

\* A schema instance as its constructor leaves it.
MkSchema(name, uuid, nullable, default) ==
    [key \in {"_name", "_uuid", "_nullable", "_default"} |->
        CASE key = "_name" -> StrV(name)
          [] key = "_uuid" -> StrV(uuid)
          [] key = "_nullable" -> BoolV(nullable)
          [] OTHER -> default]

\* DynamicValue(lambda: str(uuid4())), base.py:64
Uuid4 == [k |-> "dyn", n |-> 0, s |-> "", d |-> "uuid4"]

\* The objects that exist when the program starts, as declared.
InitSlotsOf(o) ==
    CASE o = D_name -> MkSchema("name", UuidOf(o), FALSE, StrV(""))
      [] o = D_uuid -> MkSchema("uuid", UuidOf(o), FALSE, Uuid4)
      [] o = D_nullable -> MkSchema("nullable", UuidOf(o), FALSE, BoolV(TRUE))
      [] o = D_default -> SetKey(MkSchema("default", UuidOf(o), TRUE, None), "_ref", None)
      [] o = D_ref -> MkSchema("ref", UuidOf(o), TRUE, None)
      [] o = L_default ->
            SetKey(MkSchema("default", UuidOf(o), TRUE, DynV(IntV(1))), "_ref", None)
      [] o = E_nullable -> MkSchema("nullable", UuidOf(o), FALSE, BoolV(FALSE))
      [] o = P_x -> MkSchema("x", UuidOf(o), FALSE, IntV(0))
      [] o = P_y -> MkSchema("y", UuidOf(o), FALSE, IntV(0))
      [] o = T_test -> MkSchema("", UuidOf(o), TRUE, None)
      [] o = T_lazy -> MkSchema("", UuidOf(o), FALSE, DynV(IntV(1)))
      [] o \in {p1, dp1} ->
            SetKey(SetKey(MkSchema("", UuidOf(o), TRUE, None), "_x", IntV(0)), "_y", IntV(0))
      [] o \in {s1, s2} -> MkSchema("", UuidOf(o), TRUE, None)
      [] o = r1 -> SetKey(MkSchema("", UuidOf(o), TRUE, None), "_ref", None)
      [] o = o1 -> [key \in {"x", "y"} |-> IntV(1)]
      [] o = o2 -> [key \in {"x"} |-> IntV(1)]
      [] o = o3 -> [key \in {"x", "y"} |-> IF key = "x" THEN StrV("a") ELSE IntV(1)]
      [] o = Conf -> [key \in {"a", "default", "s"} |->
                        CASE key = "a" -> IntV(1)
                          [] key = "default" -> IntV(0)
                          [] OTHER -> ObjV(s1)]
      [] OTHER -> EmptyFn

\* The objects whose instance dictionary changes at run time; the dictionary
\* of the others stays as declared.
Mutable == {p1, s1, s2, t1, r1, T_test, T_lazy, Conf, C_a1, C_a2, C_d1, C_d2, C_t1, C_t2, T_custom, lz1} \cup Fresh

Declared == [o \in Objs |-> InitSlotsOf(o)]

\* The instance dictionary of object o in the store sl.
At(sl, o) == IF o \in DOMAIN sl THEN sl[o] ELSE Declared[o]

\* _Schema._attrname: '_{0}'.format(name or self._name or self._uuid)
_attrname(sl, n) ==
    "_" \o (IF Truthy(At(sl, n)["_name"]) THEN At(sl, n)["_name"].s ELSE At(sl, n)["_uuid"].s)

\* _Schema._getter without a custom getter: the private slot of the container,
\* else the schema's resolved default.
_getter(sl, n, obj) ==
    IF _attrname(sl, n) \in DOMAIN At(sl, obj)
    THEN At(sl, obj)[_attrname(sl, n)]
    ELSE At(sl, n)["_default"]

\* obj.a: a schema held by the class of obj is a data descriptor and is asked
\* first, then the instance dictionary; Absent stands for AttributeError.
GetAttr(sl, obj, a) ==
    IF a \in DOMAIN ClassAttrs(Cls(obj)) THEN _getter(sl, ClassAttrs(Cls(obj))[a], obj)
    ELSE IF a \in DOMAIN At(sl, obj) THEN At(sl, obj)[a]
    ELSE Absent

\* hasattr(obj, a)
HasAttr(sl, obj, a) == GetAttr(sl, obj, a) # Absent

(***************************************************************************)
(* Validation (base.py:220-286).  An outcome is "ok" or the name of the    *)
(* exception raised.                                                       *)
(***************************************************************************)
\* self.nullable, read as a condition.
Nullable(sl, s) == Truthy(GetAttr(sl, s, "nullable"))

\* A null check that takes no account of nullable.
NullRejected_always(sl, s, d) == d = None

\* base.py:230: `data is None and not self.nullable`
NullRejected(sl, s, d) == d = None /\ ~Nullable(sl, s)

\* A type test that stops at the declared data types.
TypeRejected_declared(s, d) ==
    DataTypes(Cls(s)) # {} /\ ~(\E c \in DataTypes(Cls(s)) : IsInstance(d, c))

\* base.py:234-245: the type test on data that is not None.
TypeRejected(s, d) ==
    IF DataTypes(Cls(s)) # {}
    THEN ~(\E c \in DataTypes(Cls(s)) : IsInstance(d, c))
    ELSE ~IsInstance(d, Cls(s))

\* _Schema._validate.  The loop over the nested schemas (base.py:247-258)
\* follows the `raise` of base.py:243 inside the same branch and never runs.
_validate(sl, s, data) ==
    IF NullRejected(sl, s, Resolve(data)) THEN "TypeError"
    ELSE IF Resolve(data) # None /\ TypeRejected(s, Resolve(data)) THEN "TypeError"
    ELSE "ok"

\* A delegation that takes no account of the owner.
RefTarget_ref(sl, s, owner) == GetAttr(sl, s, "ref").n

\* RefSchema._validate, base.py:284: `owner if self.ref is None else self.ref`
RefTarget(sl, s, owner) ==
    IF GetAttr(sl, s, "ref") = None THEN owner ELSE GetAttr(sl, s, "ref").n

\* The depth of delegation after which Python raises RuntimeError (a RefSchema
\* that is its own owner delegates to itself for ever).
MaxDepth == 3

RECURSIVE Validate(_, _, _, _, _)
\* s._validate(data=data, owner=owner), dispatched on the class of s.
Validate(sl, s, data, owner, fuel) ==
    IF IsSubclass(Cls(s), "RefSchema")
    THEN IF ~IsSchemaObj(RefTarget(sl, s, owner)) THEN "AttributeError"
         ELSE IF fuel = 0 THEN "RuntimeError"
         ELSE Validate(sl, RefTarget(sl, s, owner), data, owner, fuel - 1)
    ELSE _validate(sl, s, data)

\* validate(schema, data), base.py:420-427
validate(sl, s, data) == Validate(sl, s, data, NoObj, MaxDepth)

(***************************************************************************)
(* Accessors (base.py:146-218) without custom fget/fset/fdel.              *)
(***************************************************************************)
\* _Schema._setter: the outcome.
SetOutcome(sl, n, obj, value) == Validate(sl, n, Resolve(value), obj, MaxDepth)

\* A setter that writes the slot whatever the validation says.
_setter_unchecked(sl, n, obj, value) ==
    [sl EXCEPT ![obj] = SetKey(@, _attrname(sl, n), Resolve(value))]

\* _Schema._setter: the store after the call.
_setter(sl, n, obj, value) ==
    IF SetOutcome(sl, n, obj, value) = "ok"
    THEN [sl EXCEPT ![obj] = SetKey(@, _attrname(sl, n), Resolve(value))]
    ELSE sl

\* _Schema._deleter: delattr raises AttributeError when the slot is missing.
DelOutcome(sl, n, obj) ==
    IF _attrname(sl, n) \in DOMAIN At(sl, obj) THEN "ok" ELSE "AttributeError"

_deleter(sl, n, obj) ==
    IF DelOutcome(sl, n, obj) = "ok"
    THEN [sl EXCEPT ![obj] = DelKey(@, _attrname(sl, n))]
    ELSE sl

(***************************************************************************)
(* Accessors given to the constructor (base.py:120-127).  The schema keeps *)
(* them as _fget, _fset and _fdel, None when not given.  The functions are *)
(* those of test/base.py:270-283, which keep the value in obj._value.      *)
(***************************************************************************)
\* `return getattr(self, '_value', self)`
fget(sl, obj) == IF "_value" \in DOMAIN At(sl, obj) THEN At(sl, obj)["_value"] ELSE ObjV(obj)

\* `self._value = value`
fset(sl, obj, value) == [sl EXCEPT ![obj] = SetKey(@, "_value", value)]

\* `del self._value`
fdel(sl, obj) == [sl EXCEPT ![obj] = DelKey(@, "_value")]

\* self._fget is not None (and so for _fset, _fdel)
HasCustom(sl, n, f) == f \in DOMAIN At(sl, n) /\ At(sl, n)[f] # None

\* base.py:146-163: _Schema._getter, the value returned.
_Schema_getter(sl, n, obj) ==
    LET result == IF HasCustom(sl, n, "_fget") THEN fget(sl, obj) ELSE None
    IN  IF result = None THEN _getter(sl, n, obj) ELSE result

\* base.py:170-186: _Schema._setter, the store after the call.
_Schema_setter(sl, n, obj, value) ==
    IF SetOutcome(sl, n, obj, value) # "ok" THEN sl
    ELSE IF HasCustom(sl, n, "_fset") THEN fset(sl, obj, Resolve(value))
    ELSE [sl EXCEPT ![obj] = SetKey(@, _attrname(sl, n), Resolve(value))]

\* base.py:204-208: the outcome of _Schema._deleter.
_Schema_DelOutcome(sl, n, obj) ==
    IF HasCustom(sl, n, "_fdel")
    THEN (IF "_value" \in DOMAIN At(sl, obj) THEN "ok" ELSE "AttributeError")
    ELSE DelOutcome(sl, n, obj)

\* base.py:198-208: _Schema._deleter, the store after the call.
_Schema_deleter(sl, n, obj) ==
    IF _Schema_DelOutcome(sl, n, obj) # "ok" THEN sl
    ELSE IF HasCustom(sl, n, "_fdel") THEN fdel(sl, obj)
    ELSE [sl EXCEPT ![obj] = DelKey(@, _attrname(sl, n))]

\* A call of obj._getvalue, obj._setvalue or obj._delvalue (kind) as the
\* container obj receives it: the nested schema n, the value given, and what
\* the private slot holds in the store sl the call is made in.
Notice(sl, kind, n, obj, value) ==
    [kind |-> kind, schema |-> n, value |-> value,
     slot |-> IF _attrname(sl, n) \in DOMAIN At(sl, obj)
              THEN At(sl, obj)[_attrname(sl, n)] ELSE Absent]

\* base.py:159-161: the calls of obj._getvalue one _getter call makes.
_getter_notes(sl, n, obj) ==
    IF IsInstance(ObjV(obj), "_Schema")
    THEN <<Notice(sl, "_getvalue", n, obj, _getter(sl, n, obj))>>
    ELSE <<>>

\* A setter that tells the container before it writes the slot.
_setter_notes_early(sl, n, obj, value) ==
    IF SetOutcome(sl, n, obj, value) = "ok" /\ IsInstance(ObjV(obj), "_Schema")
    THEN <<Notice(sl, "_setvalue", n, obj, Resolve(value))>>
    ELSE <<>>

\* base.py:179-190: the calls of obj._setvalue one _setter call makes: none
\* when _validate raises, else one, made after setattr.
_setter_notes(sl, n, obj, value) ==
    IF SetOutcome(sl, n, obj, value) = "ok" /\ IsInstance(ObjV(obj), "_Schema")
    THEN <<Notice(_setter(sl, n, obj, value), "_setvalue", n, obj, Resolve(value))>>
    ELSE <<>>

\* base.py:204-211: the calls of obj._delvalue one _deleter call makes: none
\* when delattr raises, else one, made after delattr.
_deleter_notes(sl, n, obj) ==
    IF DelOutcome(sl, n, obj) = "ok" /\ IsInstance(ObjV(obj), "_Schema")
    THEN <<Notice(_deleter(sl, n, obj), "_delvalue", n, obj, Absent)>>
    ELSE <<>>

(***************************************************************************)
(* dump (base.py:429-450).  The nested mapping is given as the set of its  *)
(* entries <<path, value>>: the path is the sequence of keys from the      *)
(* outer mapping, and a key whose value is a mapping has the entry         *)
(* <<path, Mapping>> besides the entries of that mapping.                  *)
(***************************************************************************)
Mapping == [k |-> "map", n |-> 0, s |-> "", d |-> ""]
Overflow == [k |-> "overflow", n |-> 0, s |-> "", d |-> ""]

\* An entry that keeps a schema value as it is, without dumping it.
DumpEntries_flat(a, val, inner, fuel) == {<< <<a>>, val >>}

\* base.py:445-448: the entries of key a, whose value is val; inner is the
\* dump of val when val is a schema.
DumpEntries(a, val, inner, fuel) ==
    IF IsInstance(val, "Schema")
    THEN IF fuel = 0 THEN {<< <<a>>, Overflow >>}
         ELSE {<< <<a>>, Mapping >>} \cup {<< <<a>> \o e[1], e[2] >> : e \in inner}
    ELSE {<< <<a>>, val >>}

RECURSIVE dump(_, _, _)
dump(sl, s, fuel) ==
    UNION { LET val == Resolve(GetAttr(sl, s, a)) IN
            DumpEntries(a, val,
                        IF IsInstance(val, "Schema") /\ fuel > 0
                        THEN dump(sl, val.n, fuel - 1) ELSE {},
                        fuel)
          : a \in {b \in DOMAIN getschemas(Cls(s)) : HasAttr(sl, s, b)} }

(***************************************************************************)
(* Construction (_Schema.__init__, base.py:71-127).  kw is the function of *)
(* the keyword arguments; o is the identity of the new instance.           *)
(***************************************************************************)
\* getmembers yields the class attributes sorted by name.
AttrOrder == <<"default", "lazy", "name", "nullable", "ref", "test", "uuid", "x", "y">>

\* base.py:94-97: the public members __init__ walks ('default' is skipped).
InitAttrs(c) == DOMAIN ClassAttrs(c) \ {"default"}

\* A constructor that gives every attribute its declared default.
InitValue_declared(sl, c, o, kw, a) ==
    IF a = "uuid" THEN StrV(UuidOf(o)) ELSE Resolve(GetAttr(sl, ClassAttrs(c)[a], "default"))

\* base.py:99-112: the value __init__ gives attribute a of the new instance o.
\* The declared default of uuid is DynamicValue(lambda: str(uuid4())).
InitValue(sl, c, o, kw, a) ==
    IF a \in DOMAIN kw THEN Resolve(kw[a])
    ELSE IF a = "uuid" /\ GetAttr(sl, ClassAttrs(c)[a], "default").d = "uuid4"
         THEN StrV(UuidOf(o))
    ELSE Resolve(GetAttr(sl, ClassAttrs(c)[a], "default"))

\* base.py:115-116: `member != val` holds of a schema member and any other
\* object, so the value goes through the member's setter and is validated.
InitFailures(sl, c, o, kw) ==
    {i \in DOMAIN AttrOrder :
        /\ AttrOrder[i] \in InitAttrs(c)
        /\ SetOutcome(sl, ClassAttrs(c)[AttrOrder[i]], o,
                      InitValue(sl, c, o, kw, AttrOrder[i])) # "ok"}

Min(S) == CHOOSE i \in S : \A j \in S : i <= j

\* The outcome of cls(**kw): the first exception a setter raises, if any.
InitOutcome(sl, c, o, kw) ==
    CHOOSE out \in
        {IF F = {} THEN "ok"
         ELSE SetOutcome(sl, ClassAttrs(c)[AttrOrder[Min(F)]], o,
                         InitValue(sl, c, o, kw, AttrOrder[Min(F)]))
            : F \in {InitFailures(sl, c, o, kw)}} : TRUE

\* base.py:118: self._default = kwargs.get('default', self.default)
InitDefault(sl, c, kw) ==
    IF "default" \in DOMAIN kw THEN kw["default"]
    ELSE At(sl, ClassAttrs(c)["default"])["_default"]

\* The instance dictionary of the new instance: base.py:114 writes '_' + a,
\* the setter writes the private slot of the member, base.py:118 the default.
InitSlots(sl, c, o, kw) ==
    [key \in {"_" \o a : a \in InitAttrs(c)}
            \cup {_attrname(sl, ClassAttrs(c)[a]) : a \in InitAttrs(c)}
            \cup {"_default"} |->
        IF key = "_default" THEN InitDefault(sl, c, kw)
        ELSE IF \E a \in InitAttrs(c) : _attrname(sl, ClassAttrs(c)[a]) = key
        THEN InitValue(sl, c, o, kw,
                CHOOSE a \in InitAttrs(c) : _attrname(sl, ClassAttrs(c)[a]) = key)
        ELSE InitValue(sl, c, o, kw, CHOOSE a \in InitAttrs(c) : "_" \o a = key)]

\* The keyword arguments made of the entries of a dump (top-level keys).
DumpKw(dm) ==
    [a \in {e[1][1] : e \in {f \in dm : Len(f[1]) = 1}} |->
        (CHOOSE e \in dm : e[1] = <<a>>)[2]]

(***************************************************************************)
(* SchemaRegistry (registry.py).  A registry is a record of its three      *)
(* tables: byuuid (uuid -> schema), byname (name -> set of schemas) and    *)
(* bytype (sequence of <<data type, schema class>>, one pair per key).     *)
(* rs is the function of the registries: "global" is _REGISTRY, "local" a  *)
(* SchemaRegistry() made by the caller.                                    *)
(***************************************************************************)
EmptyRegistry == [byuuid |-> EmptyFn, byname |-> EmptyFn, bytype |-> <<>>]

\* schema.schemas(): the nested schemas of the schema, in the order walked.
schemas(s) ==
    LET names == {i \in DOMAIN AttrOrder : AttrOrder[i] \in DOMAIN getschemas(Cls(s))}
        RECURSIVE Walk(_)
        Walk(S) == IF S = {} THEN <<>>
                   ELSE <<getschemas(Cls(s))[AttrOrder[Min(S)]]>> \o Walk(S \ {Min(S)})
    IN Walk(names)

\* registry.py:86-99: the uuid and name tables after register(schema).
Index(g, sl, s) ==
    [g EXCEPT !.byuuid = SetKey(@, GetAttr(sl, s, "uuid"), s),
              !.byname = SetKey(@, GetAttr(sl, s, "name"),
                                (IF GetAttr(sl, s, "name") \in DOMAIN @
                                 THEN @[GetAttr(sl, s, "name")] ELSE {}) \cup {s})]

\* registry.py:88-91: the schema already registered with this uuid, or None.
Registered(g, sl, s) ==
    IF GetAttr(sl, s, "uuid") \in DOMAIN g.byuuid
    THEN g.byuuid[GetAttr(sl, s, "uuid")] ELSE NoObj

\* registry.py:104: the registry the nested schemas are registered in is the
\* one of the module-level function register, _REGISTRY.
InnerRegistry(r) == "global"

RECURSIVE register(_, _, _, _)
RECURSIVE registerInner(_, _, _, _, _)
\* SchemaRegistry.register on registry r: the registries after the call.
register(rs, r, sl, s) ==
    IF Registered(rs[r], sl, s) = s THEN rs
    ELSE registerInner([rs EXCEPT ![r] = Index(@, sl, s)], r, sl, schemas(s), 1)

\* registry.py:101-104: the loop over the nested schemas, from position i.
registerInner(rs, r, sl, inner, i) ==
    IF i > Len(inner) THEN rs
    ELSE IF GetAttr(sl, inner[i], "uuid") \in DOMAIN rs[r].byuuid
    THEN registerInner(rs, r, sl, inner, i + 1)
    ELSE registerInner(register(rs, InnerRegistry(r), sl, inner[i]), r, sl, inner, i + 1)

\* An unregister that never raises.
UnregOutcome_silent(g, sl, uuid) == "ok"

\* SchemaRegistry.unregister: the outcome.
UnregOutcome(g, sl, uuid) ==
    IF uuid \notin DOMAIN g.byuuid THEN "KeyError"
    ELSE IF GetAttr(sl, g.byuuid[uuid], "name") \notin DOMAIN g.byname THEN "KeyError"
    ELSE IF g.byuuid[uuid] \notin g.byname[GetAttr(sl, g.byuuid[uuid], "name")]
    THEN "KeyError"
    ELSE "ok"

\* SchemaRegistry.unregister: the registry after the call.  The uuid entry is
\* popped before the name bucket is cleaned.
unregister(g, sl, uuid) ==
    IF uuid \notin DOMAIN g.byuuid THEN g
    ELSE IF UnregOutcome(g, sl, uuid) # "ok" THEN [g EXCEPT !.byuuid = DelKey(@, uuid)]
    ELSE LET s == g.byuuid[uuid]
             name == GetAttr(sl, s, "name")
         IN [g EXCEPT !.byuuid = DelKey(@, uuid),
                      !.byname = IF @[name] \ {s} = {} THEN DelKey(@, name)
                                 ELSE [@ EXCEPT ![name] = @ \ {s}]]

\* SchemaRegistry.getbyuuid / getbyname: the outcome.
GetByUuidOutcome(g, uuid) == IF uuid \in DOMAIN g.byuuid THEN "ok" ELSE "KeyError"
GetByNameOutcome(g, name) == IF name \in DOMAIN g.byname THEN "ok" ELSE "KeyError"

\* SchemaRegistry.registercls: each data type is mapped to the schema class;
\* a data type already in the table keeps its place.
RECURSIVE registercls(_, _, _)
registercls(bt, c, dts) ==
    IF dts = <<>> THEN bt
    ELSE registercls(
            IF \E i \in DOMAIN bt : bt[i][1] = Head(dts)
            THEN [i \in DOMAIN bt |-> IF bt[i][1] = Head(dts) THEN <<Head(dts), c>> ELSE bt[i]]
            ELSE Append(bt, <<Head(dts), c>>),
            c, Tail(dts))

\* An unregistercls that takes no account of the schema class.
unregistercls_bytypes(bt, c, dts) ==
    SelectSeq(bt, LAMBDA p : \A i \in DOMAIN dts : p[1] # dts[i])

\* SchemaRegistry.unregistercls(schemacls=c, data_types=dts): the entries
\* mapped to the class c are deleted, then the entries of the data types of
\* dts; "" and <<>> are the arguments left to None.
unregistercls(bt, c, dts) ==
    SelectSeq(bt, LAMBDA p : p[2] # c /\ \A i \in DOMAIN dts : p[1] # dts[i])

\* registry.py:216-217: the exact match of getbydatatype, "" when there is none.
ExactMatch(bt, dt) ==
    IF \E i \in DOMAIN bt : bt[i][1] = dt
    THEN bt[CHOOSE i \in DOMAIN bt : bt[i][1] = dt][2] ELSE ""

\* registry.py:219-223: the registered data types the best effort may stop at.
BestEffortMatches(bt, dt) == {i \in DOMAIN bt : IsSubclass(dt, bt[i][1])}

\* A lookup that falls back on any registered schema class.
getbydatatype_any(bt, dt, besteffort) ==
    IF bt = <<>> THEN {""} ELSE {bt[i][2] : i \in DOMAIN bt}

\* SchemaRegistry.getbydatatype: the results the call may return, "" for None.
\* _schbytype is a dict, and the loop of registry.py:220 walks it in the order
\* of its hash table: any registered supertype may be the one it stops at.
getbydatatype(bt, dt, besteffort) ==
    IF ExactMatch(bt, dt) # "" THEN {ExactMatch(bt, dt)}
    ELSE IF besteffort /\ BestEffortMatches(bt, dt) # {}
    THEN {bt[i][2] : i \in BestEffortMatches(bt, dt)}
    ELSE {""}

(***************************************************************************)
(* Registry (reg.py): uid -> schema and name -> list of schemas.           *)
(***************************************************************************)
\* Registry.register
Registry_register(g, sl, s) ==
    [byuid |-> IF GetAttr(sl, s, "uuid") # None
               THEN SetKey(g.byuid, GetAttr(sl, s, "uuid"), s) ELSE g.byuid,
     byname |-> IF GetAttr(sl, s, "name") # None
                THEN SetKey(g.byname, GetAttr(sl, s, "name"),
                            Append(IF GetAttr(sl, s, "name") \in DOMAIN g.byname
                                   THEN g.byname[GetAttr(sl, s, "name")] ELSE <<>>, s))
                ELSE g.byname]

\* Registry.getbyname(name=None, uid=None): the outcome (None is a missing
\* argument; with both missing `result` is read before it is bound).
Registry_getbyname_outcome(g, name, uid) ==
    IF uid # None THEN (IF uid \in DOMAIN g.byuid THEN "ok" ELSE "KeyError")
    ELSE IF name # None THEN (IF name \in DOMAIN g.byname THEN "ok" ELSE "KeyError")
    ELSE "UnboundLocalError"

\* Registry.getbyname: the schema returned.
Registry_getbyname(g, name, uid) ==
    IF Registry_getbyname_outcome(g, name, uid) # "ok" THEN NoObj
    ELSE IF uid # None THEN g.byuid[uid]
    ELSE g.byname[name][1]

(***************************************************************************)
(* Content resolution (base.py:289-358).  The __dict__ of the class Conf   *)
(* is the dictionary slots[Conf] of the class object: its public members   *)
(* by name.  The classes Conf inherits from hold named schemas, which the  *)
(* loop keeps as they are.  A resolution is carried out on the record of   *)
(* the store sl, the objects made al and the registries g; ro holds the    *)
(* members the class does not let setattr assign, and stop tells that the  *)
(* loop over the members was left (base.py:355-356).                       *)
(***************************************************************************)
\* The public members of Conf, in the order the loop walks them.
ConfNames == <<"a", "default", "s">>

\* The identities of the schemas made for a member, in the order made.
Pool(name) == IF name = "default" THEN <<C_d1, C_d2>> ELSE <<C_a1, C_a2>>

\* The identity the next schema made for the member takes, NoObj when none is left.
NextMade(al, name) ==
    IF \E i \in DOMAIN Pool(name) : Pool(name)[i] \notin al
    THEN Pool(name)[Min({i \in DOMAIN Pool(name) : Pool(name)[i] \notin al})]
    ELSE NoObj

\* A resolver that takes the member named default for a plain value.
IsResolved_plaindefault(name, fmember) ==
    fmember.k = "obj" /\ IsSchemaObj(fmember.n) /\ name # "default"

\* base.py:335: isinstance(fmember, _Schema)
IsResolved(name, fmember) == fmember.k = "obj" /\ IsSchemaObj(fmember.n)

\* base.py:338-339: `if not schema.name: schema.name = name`
SetName(sl, o, name) ==
    IF Truthy(GetAttr(sl, o, "name")) THEN sl
    ELSE _setter(sl, ClassAttrs(Cls(o))["name"], o, StrV(name))

\* obj2schema(obj=member, name=name): the schema class found for the type of
\* the value, "" when there is none.  The members are of types registered
\* exactly or not at all, for which the lookup has one result.
obj2schema(g, member) ==
    CHOOSE c \in getbydatatype(g.bytype, TypeOf(Resolve(member)), TRUE) : TRUE

\* base.py:350-356: setattr(schemaclass, name, schema), and the break that
\* leaves the loop over the members when the class rejects the assignment.
Assign(st, name, schema) ==
    IF name \in st.ro THEN [st EXCEPT !.stop = TRUE]
    ELSE [st EXCEPT !.sl[Conf] = SetKey(@, name, schema)]

\* The identities of the instances of Conf made for This members, in the order made.
ThisPool == <<C_t1, C_t2>>

\* The identity the next instance of Conf takes, NoObj when none is left.
NextThis(al) ==
    IF \E i \in DOMAIN ThisPool : ThisPool[i] \notin al
    THEN ThisPool[Min({i \in DOMAIN ThisPool : ThisPool[i] \notin al})]
    ELSE NoObj

\* A call that passes the default on and leaves nullable as the class declares it.
This_kwargs_defaultonly(this) ==
    [key \in {"default", "nullable"} |->
        IF key = "default" THEN StrV(this.s) ELSE BoolV(TRUE)]

\* base.py:345: **fmember.kwargs, the keyword arguments the placeholder carries.
This_kwargs(this) ==
    [key \in {"default", "nullable"} |->
        IF key = "default" THEN StrV(this.s) ELSE BoolV(this.n = 1)]

\* The public members Conf declares that __init__ walks (base.py:94-97).
OwnNames == <<"a", "s">>

\* base.py:99-112: the value __init__ gives the member called name of a new
\* instance of Conf: the member, called when it is a DynamicValue, and the
\* default of the member when that is a schema.
OwnValue(sl, name) ==
    LET val == Resolve(sl[Conf][name])
    IN  IF val.k = "obj" /\ IsSchemaObj(val.n)
        THEN Resolve(GetAttr(sl, val.n, "default"))
        ELSE val

\* base.py:115-116: `member != val` sends the value through the setter of a
\* member that is a schema; the outcome of that setter on the new instance o.
OwnOutcome(sl, o, name) ==
    IF sl[Conf][name].k = "obj" /\ IsSchemaObj(sl[Conf][name].n)
    THEN SetOutcome(sl, sl[Conf][name].n, o, OwnValue(sl, name))
    ELSE "ok"

\* base.py:114-116: what __init__ writes in the dictionary d of the new
\* instance for the member called name.  A member that is neither a schema
\* nor a DynamicValue equals its value and is written under '_' + name only.
OwnWrite(d, sl, name) ==
    LET member == sl[Conf][name]
        val == OwnValue(sl, name)
        d1 == SetKey(d, "_" \o name, val)
    IN  IF member.k = "obj" /\ IsSchemaObj(member.n)
        THEN SetKey(d1, _attrname(sl, member.n), val)
        ELSE IF member # val THEN SetKey(d1, name, val)
        ELSE d1

\* The outcome of Conf(**kw) for the new instance o: the first exception a
\* setter raises (getmembers walks a, name, nullable, s, uuid).
ThisOutcome(sl, o, kw) ==
    CHOOSE out \in
        {IF own[1] # "ok" THEN own[1] ELSE IF base # "ok" THEN base ELSE own[2]
            : own \in {[i \in DOMAIN OwnNames |-> OwnOutcome(sl, o, OwnNames[i])]},
              base \in {InitOutcome(sl, "Conf", o, kw)}} : TRUE

\* The outcome of c(**kw) for the new instance o.
NewOutcome(sl, c, o, kw) ==
    IF c = "Conf" THEN ThisOutcome(sl, o, kw) ELSE InitOutcome(sl, c, o, kw)

\* The instance dictionary of the new instance o of c; the constructor writes
\* _default last (base.py:118), after the members.
NewSlots(sl, c, o, kw) ==
    CHOOSE d \in
        {IF c # "Conf" THEN base
         ELSE SetKey(OwnWrite(OwnWrite(base, sl, "a"), sl, "s"),
                     "_default", InitDefault(sl, c, kw))
            : base \in {InitSlots(sl, c, o, kw)}} : TRUE

\* base.py:342-353: the instance o of c made with the arguments kw and
\* assigned to the member; a class made by MetaSchema registers the instance
\* in _REGISTRY (base.py:379-386).
Make(st, name, c, o, kw) ==
    CHOOSE res \in
        {IF out # "ok" THEN [st EXCEPT !.out = out]
         ELSE Assign([st EXCEPT !.sl[o] = d, !.al = @ \cup {o},
                                !.g = IF IsMeta(c)
                                      THEN register(@, "global", [st.sl EXCEPT ![o] = d], o)
                                      ELSE @],
                     name, ObjV(o))
            : out \in {NewOutcome(st.sl, c, o, kw)},
              d \in {NewSlots(st.sl, c, o, kw)}} : TRUE

\* base.py:341-348: the class of the schema made for a member that is not a
\* schema, "" when obj2schema finds none.
MadeClass(g, name, member, fmember) ==
    IF name = "default" THEN "RefSchema"
    ELSE IF fmember.k = "this" THEN "Conf"
    ELSE obj2schema(g, member)

\* The arguments the schema is made with: default=member, name=name, or those
\* the placeholder carries.
MadeKw(name, member, fmember) ==
    IF name # "default" /\ fmember.k = "this" THEN This_kwargs(fmember)
    ELSE [key \in {"default", "name"} |-> IF key = "default" THEN member ELSE StrV(name)]

\* The identity the schema made takes.
MadeId(al, name, fmember) ==
    IF name # "default" /\ fmember.k = "this" THEN NextThis(al) ELSE NextMade(al, name)

\* base.py:324-356: one turn of the loop, on the member called name, from the
\* state st of the resolution.
ResolveIn(st, name) ==
    LET member == st.sl[Conf][name]
        fmember == Resolve(member)
    IN  IF st.out # "ok" \/ st.stop THEN st
        ELSE IF IsResolved(name, fmember)
        THEN IF member.k = "dyn"
             THEN Assign([st EXCEPT !.sl = SetName(st.sl, fmember.n, name)], name, fmember)
             ELSE [st EXCEPT !.sl = SetName(st.sl, fmember.n, name)]
        ELSE CHOOSE res \in
                {IF c = "" THEN st
                 ELSE Make(st, name, c, MadeId(st.al, name, fmember),
                           MadeKw(name, member, fmember))
                    : c \in {MadeClass(st.g["global"], name, member, fmember)}} : TRUE

\* One turn of the loop, the state of the resolution taken once.
ResolveMember(st, name) == CHOOSE res \in {ResolveIn(s, name) : s \in {st}} : TRUE

RECURSIVE updatecontent(_, _)
\* updatecontent(Conf): the loop over the members from position i.
updatecontent(st, i) ==
    IF i > Len(ConfNames) THEN st
    ELSE updatecontent(ResolveMember(st, ConfNames[i]), i + 1)

\* Conf.getschemas(): the members of the class, inherited ones included, that
\* are schemas, by name.
ConfSchemas(sl) ==
    LET own == {n \in DOMAIN sl[Conf] : sl[Conf][n].k = "obj" /\ IsSchemaObj(sl[Conf][n].n)}
    IN  [n \in (DOMAIN BaseAttrs \ DOMAIN sl[Conf]) \cup own |->
            IF n \in own THEN sl[Conf][n].n ELSE BaseAttrs[n]]

(***************************************************************************)
(* Equality (base.py:138-140).                                             *)
(***************************************************************************)
RECURSIVE Eq(_, _, _)
\* a == b for a schema a: `other is self or self.getschemas() ==
\* other.getschemas()`.  getschemas is a class method: the two dictionaries
\* hold the schemas of the classes of a and of b, compared key by key with
\* ==.  The result is "True", "False", or the exception raised.
Eq(a, b, fuel) ==
    IF a = b THEN "True"
    ELSE IF ~IsSchemaObj(b) THEN "AttributeError"
    ELSE IF fuel = 0 THEN "RuntimeError"
    ELSE IF DOMAIN getschemas(Cls(a)) # DOMAIN getschemas(Cls(b)) THEN "False"
    ELSE LET res == {Eq(getschemas(Cls(a))[n], getschemas(Cls(b))[n], fuel - 1) :
                        n \in DOMAIN getschemas(Cls(a))}
         IN  IF "RuntimeError" \in res THEN "RuntimeError"
             ELSE IF "False" \in res THEN "False"
             ELSE "True"

(***************************************************************************)
(* Function schemas (lang/python.py).                                      *)
(***************************************************************************)
\* The names a function of the model gives its parameters, in order.
ArgNames == <<"a", "b", "c">>

\* The default value a function of the model gives the parameter at position
\* i, when it gives one: f(a, b, c=3).
DefaultAt(i) == IntV(i)

\* A function object: id tells two objects of one signature apart, name is
\* __name__, args the named parameters, defaults the values of the last
\* parameters (<<>> where Python has None), varargs and keywords the names of
\* *args and **kwargs ("" where there is none).  __doc__ is None.
Function(id, name, n, k, variadic) ==
    [id |-> id, name |-> name,
     args |-> SubSeq(ArgNames, 1, n),
     defaults |-> [i \in 1 .. k |-> DefaultAt(n - k + i)],
     varargs |-> IF variadic THEN "args" ELSE "",
     keywords |-> IF variadic THEN "kwargs" ELSE ""]

\* `None` where a function is expected.
NoFunction == Function(0, "", 0, 0, FALSE)

\* The functions of the model: every split of at most Len(ArgNames) named
\* parameters into plain and defaulted ones, with and without *args and
\* **kwargs, and second objects of some of these signatures, one of another
\* name.
Functions ==
    {Function(1, "f", t[1], t[2], t[3]) :
        t \in {u \in (0 .. Len(ArgNames)) \X (0 .. Len(ArgNames)) \X BOOLEAN : u[2] <= u[1]}}
    \cup {Function(2, nm, n, 1, FALSE) : nm \in {"f", "g"}, n \in 1 .. Len(ArgNames)}

\* A getargspec that counts *args among the named parameters.
getargspec_variadic(function) ==
    [args |-> function.args \o (IF function.varargs = "" THEN <<>> ELSE <<function.varargs>>),
     defaults |-> function.defaults]

\* inspect.getargspec(function): args and defaults, as _getparams_rtype reads
\* them (lang/python.py:227).
getargspec(function) ==
    [args |-> function.args, defaults |-> function.defaults]

\* data2schema(value): a schema of the class registered for the type of the
\* value, with the value as its default; None when there is no class.
data2schema(bt, value) ==
    LET c == CHOOSE c \in getbydatatype(bt, TypeOf(value), TRUE) : TRUE
    IN  IF c = "" THEN None ELSE [k |-> "schema", n |-> value.n, s |-> c, d |-> value.k]

\* FunctionSchema._getparams_rtype(function): the parameter kwargs in the
\* order of the OrderedDict, and the rtype.  The key 'ref' is set only for a
\* parameter with a default value: Absent says the dictionary has no such key.
_getparams_rtype(bt, function) ==
    LET args == getargspec(function).args
        default == getargspec(function).defaults
        indexlen == Len(args) - Len(default)
    IN  [params |->
            [i \in 1 .. Len(args) |->
                IF i > indexlen
                THEN [name |-> args[i], default |-> default[i - indexlen], type |-> None,
                      hasvalue |-> TRUE, ref |-> data2schema(bt, default[i - indexlen])]
                ELSE [name |-> args[i], default |-> None, type |-> None,
                      hasvalue |-> FALSE, ref |-> Absent]],
         rtype |-> ""]

\* The ParamSchema objects one FunctionSchema instance may make.
MaxParams == 6

\* FunctionSchema(name=name, default=default): the constructor stores the
\* default as it is given (base.py:118) and params is the list the default of
\* the ArraySchema makes; nothing is derived.  value is the slot _setter
\* writes, prm the ParamSchema objects made so far (params holds their
\* positions in prm) and out the outcome of the last call on the instance.
NewFunctionSchema(name, default) ==
    [name |-> name, default |-> default, value |-> NoFunction, params |-> <<>>,
     rtype |-> "", impltype |-> "", prm |-> <<>>, out |-> "ok"]

\* ParamSchema(**pkwarg): 'type' names no attribute and is left out, ref is
\* None when the dictionary has no such key.
NewParamSchema(pkwarg) ==
    [name |-> pkwarg.name, default |-> pkwarg.default, hasvalue |-> pkwarg.hasvalue,
     ref |-> IF pkwarg.ref = Absent THEN None ELSE pkwarg.ref]

\* FunctionSchema._validate(data=data), up to the check of rtype: the checks
\* are left out for the object that is the default already; self.rtype is a
\* string, which has no _validate.
FunctionSchema_validate(st, bt, data) ==
    IF data = st.default THEN "ok"
    ELSE IF data.name # st.name THEN "TypeError"
    ELSE IF Len(_getparams_rtype(bt, data).params) # Len(st.params) THEN "TypeError"
    ELSE "AttributeError"

\* The loop of FunctionSchema._setter (lang/python.py:195-211) from position i
\* on: a ParamSchema that is there is given the name, the ref, the default and
\* the hasvalue of the parameter, and pkwarg['ref'] raises KeyError for a
\* parameter without a default value; one that is not there is made and
\* inserted.  The default values of the model are of registered types, so
\* that the ref made for one accepts it.
RECURSIVE PatchParams(_, _, _)
PatchParams(st, pkwargs, i) ==
    IF i > Len(pkwargs) THEN st
    ELSE IF i <= Len(st.params)
    THEN LET p == st.params[i]
             named == [st EXCEPT !.prm[p].name = pkwargs[i].name]
         IN  IF pkwargs[i].ref = Absent THEN [named EXCEPT !.out = "KeyError"]
             ELSE PatchParams([named EXCEPT !.prm[p].ref = pkwargs[i].ref,
                                            !.prm[p].default = pkwargs[i].default,
                                            !.prm[p].hasvalue = pkwargs[i].hasvalue],
                              pkwargs, i + 1)
    ELSE PatchParams([st EXCEPT !.prm = Append(@, NewParamSchema(pkwargs[i])),
                                !.params = Append(@, Len(st.prm) + 1)],
                     pkwargs, i + 1)

\* What `self.params[:index]` keeps after the loop over n parameters: index is
\* the last value enumerate gave it, 0 when there was none.
KeptParams(n) == IF n = 0 THEN 0 ELSE n - 1

\* FunctionSchema._setter(obj=self, value=value), as _setvalue calls it once
\* value is stored as the default: the value is stored, rtype and the params
\* are derived, params is cut and impltype set.
FunctionSchema_setter(st, bt, value) ==
    LET derived == _getparams_rtype(bt, value)
        patched == PatchParams([st EXCEPT !.value = value, !.rtype = derived.rtype],
                               derived.params, 1)
    IN  IF patched.out # "ok" THEN patched
        ELSE [patched EXCEPT !.params = SubSeq(@, 1, KeptParams(Len(derived.params))),
                             !.impltype = "python"]

\* schema.default = value: the RefSchema of `default` has no ref and hands the
\* validation to the FunctionSchema (base.py:282-284); the value is stored and
\* the FunctionSchema notified (base.py:187-191), which calls its own _setter
\* (lang/python.py:181-185).
SetFunctionDefault(st, bt, value) ==
    IF FunctionSchema_validate(st, bt, value) # "ok"
    THEN [st EXCEPT !.out = FunctionSchema_validate(st, bt, value)]
    ELSE FunctionSchema_setter([st EXCEPT !.default = value, !.out = "ok"], bt, value)

(***************************************************************************)
(* Schema factory (factory.py).                                            *)
(***************************************************************************)
\* SchemaFactory(): no maker and an empty cache (factory.py:44-45).
SchemaFactory == [_makers |-> EmptyFn, _schemasbyresource |-> EmptyFn]

\* The makers of test/factory.py:42-51: maker(_type)(resource) returns the
\* resource when it is of the type and raises TypeError otherwise.  A maker is
\* named by its type here; Absent stands for the TypeError.
maker(_type, resource) == IF TypeOf(resource) = _type THEN resource ELSE Absent

\* SchemaFactory.registermaker(maker=m, name=name)
registermaker(fac, m, name) == [fac EXCEPT !._makers = SetKey(@, name, m)]

\* SchemaFactory.unregistermaker(name): `del self._makers[name]`
unregistermaker(fac, name) ==
    IF name \in DOMAIN fac._makers
    THEN [fac |-> [fac EXCEPT !._makers = DelKey(@, name)], out |-> "ok"]
    ELSE [fac |-> fac, out |-> "KeyError"]

\* The results the loop of factory.py:104-109 may end with: the loop does not
\* stop at the first maker that accepts the resource, and _makers is a dict,
\* walked in the order of its hash table; None (the initial result) when no
\* maker accepts the resource.
Made_by(fac, resource) ==
    LET made == {maker(fac._makers[n], resource) : n \in DOMAIN fac._makers} \ {Absent}
    IN  IF made = {} THEN {None} ELSE made

\* SchemaFactory.getschema(resource, cache), for the result the makers ended
\* with when they were asked (factory.py:98-117).
SchemaFactory_getschema(fac, resource, cache, result) ==
    LET res == IF cache /\ resource \in DOMAIN fac._schemasbyresource
               THEN fac._schemasbyresource[resource] ELSE result
    IN  IF res = None THEN [fac |-> fac, out |-> "TypeError", ret |-> None]
        ELSE [fac |-> IF cache THEN [fac EXCEPT !._schemasbyresource = SetKey(@, resource, res)]
                      ELSE fac,
              out |-> "ok", ret |-> res]

\* The module function getschema(resource, cache) (factory.py:141-148).
getschema(fac, resource, cache, result) ==
    SchemaFactory_getschema(fac, resource, TRUE, result)

(***************************************************************************)
(* State.                                                                  *)
(***************************************************************************)
VARIABLES
    slots,    \* the instance dictionary of every object of Mutable
    alive,    \* the objects constructed so far
    rs,       \* the SchemaRegistry instances: _REGISTRY and a local one
    reg,      \* a Registry of reg.py
    written,  \* per accessor target, the value of the last successful Set
              \* since the last Delete (Absent when there is none); the value
              \* the constructor of the container stored counts as a Set
    last,     \* the last call: its operation, arguments, outcome and result
    fn,       \* a FunctionSchema instance and the ParamSchemas made for it
    factory   \* the SchemaFactory _SCHEMAFACTORY: its makers and its cache

vars == <<slots, alive, rs, reg, written, last, fn, factory>>

\* The instances MetaSchema.__call__ registered in _REGISTRY, in the order of
\* their construction.
Constructed ==
    <<D_name, D_uuid, D_nullable, E_nullable, P_x, P_y, T_test, T_lazy, p1, s1, s2, dp1>>

RECURSIVE RegisterAll(_, _, _)
RegisterAll(g, sl, i) ==
    IF i > Len(Constructed) THEN g
    ELSE RegisterAll(register(g, "global", sl, Constructed[i]), sl, i + 1)

\* MetaSchema.__new__ (base.py:370-371): each class that declares data types is
\* registered with them in _REGISTRY when it is created, in the order of the
\* class statements.
ClassOrder == <<"BooleanSchema", "NumberSchema", "IntegerSchema", "StringSchema", "DataPoint">>

RECURSIVE RegisterClasses(_, _)
RegisterClasses(bt, i) ==
    IF i > Len(ClassOrder) THEN bt
    ELSE RegisterClasses(registercls(bt, ClassOrder[i], DataTypesSeq(ClassOrder[i])), i + 1)

\* A call: op the operation; r the registry, o the object, a the attribute,
\* v the value, w the owner, be the best-effort or cache flag and fun the
\* function it was given; out its outcome; ret, objs, dmp or pk what it returned (a
\* value, a set of schemas, a dump, parameter kwargs).
NoCall == [op |-> "none", r |-> "", o |-> NoObj, a |-> "", v |-> None, w |-> NoObj,
           be |-> FALSE, fun |-> NoFunction, pk |-> <<>>,
           out |-> "ok", ret |-> None, objs |-> {}, dmp |-> {}, ntf |-> <<>>]

\* The container attributes the accessors are exercised on.
Targets ==
    {<<p1, "x">>, <<s1, "nullable">>, <<s1, "default">>, <<t1, "test">>, <<t1, "lazy">>}

\* sname and suuid are the name and the uuid given to the constructor of s2.
InitStore(sname, suuid) ==
    [o \in Mutable |->
        IF o = s2 THEN MkSchema(sname, suuid, TRUE, None) ELSE Declared[o]]

InitWith(sname, suuid) ==
    /\ slots = InitStore(sname, suuid)
    /\ alive = Objs \ (Fresh \cup Made \cup {lz1, T_custom})
    /\ rs = RegisterAll([r \in {"global", "local"} |->
                            IF r = "global"
                            THEN [EmptyRegistry EXCEPT !.bytype = RegisterClasses(<<>>, 1)]
                            ELSE EmptyRegistry],
                        InitStore(sname, suuid), 1)
    /\ reg = [byuid |-> EmptyFn, byname |-> EmptyFn]
    /\ written = [tg \in Targets |->
                    CASE tg = <<p1, "x">> -> IntV(0)
                      [] tg = <<s1, "default">> -> None
                      [] OTHER -> Absent]
    /\ last = NoCall
    /\ fn = NewFunctionSchema("", NoFunction)
    /\ factory = SchemaFactory

Init == InitWith("", UuidOf(s2))

(***************************************************************************)
(* Inputs.                                                                 *)
(***************************************************************************)
Ints == {IntV(i) : i \in 0 .. MaxInt}

\* The data validate is called with.
DataVals ==
    {None, StrV("a"), DynV(None), DynV(IntV(1)), ObjV(s2), ObjV(o1), ObjV(o2), ObjV(o3)}
        \cup Ints

\* The schemas validate is called on.
ValidateSchemas == {s1, p1, dp1, r1, P_x}

\* The values assigned through each accessor target.
SetVals(tg) ==
    CASE tg = <<p1, "x">> -> {None, StrV("a"), DynV(IntV(1))} \cup Ints
      [] tg = <<s1, "nullable">> -> {None, BoolV(TRUE), BoolV(FALSE)}
      [] tg = <<s1, "default">> -> {None, ObjV(s1), ObjV(s2), IntV(1), DynV(None)}
      [] tg = <<t1, "lazy">> -> {None, IntV(0)}
      [] OTHER -> {ObjV(s2), IntV(1), DynV(ObjV(s2))}

\* Keyword arguments given to the constructor of Point, by label.
KwChoices ==
    [lb \in {"none", "xy", "bad", "dyn"} |->
        CASE lb = "none" -> EmptyFn
          [] lb = "xy" -> [a \in {"x", "y"} |-> IntV(1)]
          [] lb = "bad" -> [a \in {"x"} |-> StrV("a")]
          [] OTHER -> [a \in {"x", "default"} |-> DynV(IntV(1))]]

\* Keyword arguments given to the constructor of Lazy.
LazyKw == {EmptyFn, [a \in {"default"} |-> None], [a \in {"default"} |-> IntV(0)]}

(***************************************************************************)
(* Actions on schema instances.                                            *)
(***************************************************************************)
\* validate(s, d)
DoValidate(s, d) ==
    /\ s \in alive
    /\ last' = [NoCall EXCEPT !.op = "validate", !.o = s, !.v = d,
                              !.out = validate(slots, s, d)]
    /\ UNCHANGED <<slots, alive, rs, reg, written, fn, factory>>

\* o.a = v
DoSet(o, a, v) ==
    /\ slots' = _setter(slots, ClassAttrs(Cls(o))[a], o, v)
    /\ written' = IF SetOutcome(slots, ClassAttrs(Cls(o))[a], o, v) = "ok"
                  THEN [written EXCEPT ![<<o, a>>] = Resolve(v)]
                  ELSE written
    /\ last' = [NoCall EXCEPT !.op = "set", !.o = o, !.a = a, !.v = v,
                              !.out = SetOutcome(slots, ClassAttrs(Cls(o))[a], o, v),
                              !.ntf = _setter_notes(slots, ClassAttrs(Cls(o))[a], o, v)]
    /\ UNCHANGED <<alive, rs, reg, fn, factory>>

\* o.a
DoGet(o, a) ==
    /\ last' = [NoCall EXCEPT !.op = "get", !.o = o, !.a = a,
                              !.ret = _getter(slots, ClassAttrs(Cls(o))[a], o),
                              !.ntf = _getter_notes(slots, ClassAttrs(Cls(o))[a], o)]
    /\ UNCHANGED <<slots, alive, rs, reg, written, fn, factory>>

\* del o.a
DoDelete(o, a) ==
    /\ slots' = _deleter(slots, ClassAttrs(Cls(o))[a], o)
    /\ written' = IF DelOutcome(slots, ClassAttrs(Cls(o))[a], o) = "ok"
                  THEN [written EXCEPT ![<<o, a>>] = Absent]
                  ELSE written
    /\ last' = [NoCall EXCEPT !.op = "delete", !.o = o, !.a = a,
                              !.out = DelOutcome(slots, ClassAttrs(Cls(o))[a], o),
                              !.ntf = _deleter_notes(slots, ClassAttrs(Cls(o))[a], o)]
    /\ UNCHANGED <<alive, rs, reg, fn, factory>>

\* dump(s); a value that contains itself exhausts the recursion.
DumpOutcome(sl, s) ==
    IF \E e \in dump(sl, s, MaxDepth) : e[2] = Overflow THEN "RuntimeError" ELSE "ok"

DoDump(s) ==
    /\ s \in alive
    /\ last' = [NoCall EXCEPT !.op = "dump", !.o = s,
                              !.out = DumpOutcome(slots, s),
                              !.dmp = IF DumpOutcome(slots, s) = "ok"
                                      THEN dump(slots, s, MaxDepth) ELSE {}]
    /\ UNCHANGED <<slots, alive, rs, reg, written, fn, factory>>

\* MetaSchema.__call__ (base.py:379-386): cls(**kw) builds the instance o and,
\* when __init__ returned, registers it in _REGISTRY.  call is the record of
\* the call that constructs.
Construct(c, o, kw, call) ==
    \E out \in {InitOutcome(slots, c, o, kw)} :
        /\ slots' = IF out = "ok"
                    THEN [slots EXCEPT ![o] = InitSlots(slots, c, o, kw)] ELSE slots
        /\ alive' = IF out = "ok" THEN alive \cup {o} ELSE alive
        /\ rs' = IF out = "ok" THEN register(rs, "global", slots', o) ELSE rs
        /\ last' = [call EXCEPT !.out = out,
                                !.ret = IF out = "ok" THEN ObjV(o) ELSE None]
        /\ UNCHANGED <<reg, written, fn, factory>>

\* Point(**kw)
DoConstruct(lb) ==
    /\ Fresh \ alive # {}
    /\ Construct("Point", Min(Fresh \ alive), KwChoices[lb],
                 [NoCall EXCEPT !.op = "construct", !.a = lb])

\* Lazy(**kw)
DoConstructLazy(kw) ==
    /\ lz1 \notin alive
    /\ Construct("Lazy", lz1, kw,
                 [NoCall EXCEPT !.op = "construct", !.a = "Lazy",
                                !.v = IF "default" \in DOMAIN kw THEN kw["default"]
                                      ELSE Absent])

\* a == b
DoEq(a, b) ==
    /\ {a, b} \subseteq alive
    /\ last' = [NoCall EXCEPT !.op = "eq", !.o = a, !.v = ObjV(b),
                              !.out = IF Eq(a, b, MaxDepth) \in {"True", "False"} THEN "ok"
                                      ELSE Eq(a, b, MaxDepth),
                              !.ret = IF Eq(a, b, MaxDepth) \in {"True", "False"}
                                      THEN BoolV(Eq(a, b, MaxDepth) = "True") ELSE None]
    /\ UNCHANGED <<slots, alive, rs, reg, written, fn, factory>>

\* type(src)(**dump(src))
DoRebuild(src) ==
    /\ src \in alive
    /\ Fresh \ alive # {}
    /\ DumpOutcome(slots, src) = "ok"
    /\ Construct(Cls(src), Min(Fresh \ alive), DumpKw(dump(slots, src, MaxDepth)),
                 [NoCall EXCEPT !.op = "rebuild", !.o = src])

Next ==
    \/ \E s \in ValidateSchemas, d \in DataVals : DoValidate(s, d)
    \/ \E tg \in Targets : \E v \in SetVals(tg) : DoSet(tg[1], tg[2], v)
    \/ \E tg \in Targets : DoGet(tg[1], tg[2])
    \/ \E tg \in Targets : DoDelete(tg[1], tg[2])
    \/ \E s \in {p1, s1} : DoDump(s)

Spec == Init /\ [][Next]_vars

(***************************************************************************)
(* Accessors on the attributes of one container, and on the names of the   *)
(* schemas that hold them (`Test.test.name = 'v'`, as test/base.py:303     *)
(* sets Test.test.nullable).                                               *)
(***************************************************************************)
\* The attributes of the containers t1 and p1.
SlotTargets == {<<t1, "test">>, <<t1, "lazy">>, <<p1, "x">>}

\* The schemas whose name is set.
NameTargets == {<<T_test, "name">>, <<T_lazy, "name">>}

SlotVals(tg) ==
    CASE tg \in NameTargets -> {StrV(""), StrV("v")}
      [] tg[1] = t1 /\ tg[2] = "test" -> {None, ObjV(s2)}
      [] OTHER -> {IntV(0), IntV(1)}

NextSlots ==
    \/ \E tg \in SlotTargets \cup NameTargets : \E v \in SlotVals(tg) : DoSet(tg[1], tg[2], v)
    \/ \E tg \in SlotTargets \cup NameTargets : DoGet(tg[1], tg[2])
    \/ \E tg \in SlotTargets : DoDelete(tg[1], tg[2])

SpecSlots == Init /\ [][NextSlots]_vars

(***************************************************************************)
(* Construction and reconstruction from a dump.                            *)
(***************************************************************************)
BuildTargets == {<<p1, "x">>}

\* The pairs compared with ==.
EqCalls ==
    {<<p1, p1>>, <<p1, s1>>, <<s1, p1>>, <<s1, lz1>>, <<p1, o1>>}
        \cup ({p1} \X Fresh) \cup (Fresh \X {p1})

NextBuild ==
    \/ \E lb \in DOMAIN KwChoices : DoConstruct(lb)
    \/ \E kw \in LazyKw : DoConstructLazy(kw)
    \/ \E c \in EqCalls : DoEq(c[1], c[2])
    \/ \E src \in {p1} \cup Fresh : DoRebuild(src)
    \/ \E s \in {p1} \cup Fresh : DoDump(s)
    \/ \E s \in Fresh, d \in {None, IntV(0)} : DoValidate(s, d)
    \/ \E tg \in BuildTargets : \E v \in SetVals(tg) : DoSet(tg[1], tg[2], v)
    \/ \E tg \in BuildTargets : DoDelete(tg[1], tg[2])

SpecBuild == Init /\ [][NextBuild]_vars

(***************************************************************************)
(* Actions on the registries (registry.py, reg.py).                        *)
(***************************************************************************)
RegNames == {"global", "local"}

\* r.register(s); the call returns the schema registered before under the uuid.
DoRegister(r, s) ==
    /\ rs' = register(rs, r, slots, s)
    /\ last' = [NoCall EXCEPT !.op = "register", !.r = r, !.o = s,
                              !.ret = IF Registered(rs[r], slots, s) = NoObj THEN None
                                      ELSE ObjV(Registered(rs[r], slots, s))]
    /\ UNCHANGED <<slots, alive, reg, written, fn, factory>>

\* r.unregister(uuid); o records the schema the uuid was registered to.
DoUnregister(r, uuid) ==
    /\ rs' = [rs EXCEPT ![r] = unregister(@, slots, uuid)]
    /\ last' = [NoCall EXCEPT !.op = "unregister", !.r = r, !.v = uuid,
                              !.o = IF uuid \in DOMAIN rs[r].byuuid
                                    THEN rs[r].byuuid[uuid] ELSE NoObj,
                              !.out = UnregOutcome(rs[r], slots, uuid)]
    /\ UNCHANGED <<slots, alive, reg, written, fn, factory>>

\* r.getbyuuid(uuid)
DoGetByUuid(r, uuid) ==
    /\ last' = [NoCall EXCEPT !.op = "getbyuuid", !.r = r, !.v = uuid,
                              !.out = GetByUuidOutcome(rs[r], uuid),
                              !.ret = IF GetByUuidOutcome(rs[r], uuid) = "ok"
                                      THEN ObjV(rs[r].byuuid[uuid]) ELSE None]
    /\ UNCHANGED <<slots, alive, rs, reg, written, fn, factory>>

\* r.getbyname(name)
DoGetByName(r, name) ==
    /\ last' = [NoCall EXCEPT !.op = "getbyname", !.r = r, !.v = name,
                              !.out = GetByNameOutcome(rs[r], name),
                              !.objs = IF GetByNameOutcome(rs[r], name) = "ok"
                                       THEN rs[r].byname[name] ELSE {}]
    /\ UNCHANGED <<slots, alive, rs, reg, written, fn, factory>>

\* Registry.register(s) of reg.py; each schema is given to it once.
DoRegRegister(s) ==
    /\ \A nm \in DOMAIN reg.byname : \A i \in DOMAIN reg.byname[nm] : reg.byname[nm][i] # s
    /\ reg' = Registry_register(reg, slots, s)
    /\ last' = [NoCall EXCEPT !.op = "reg.register", !.r = "reg", !.o = s]
    /\ UNCHANGED <<slots, alive, rs, written, fn, factory>>

\* Registry.getbyname(name=name, uid=uid) of reg.py; a records which of the
\* two arguments was given.
DoRegGetByName(name, uid) ==
    /\ last' = [NoCall EXCEPT !.op = "reg.getbyname", !.r = "reg",
                              !.a = IF uid # None THEN "uid"
                                    ELSE IF name # None THEN "name" ELSE "",
                              !.v = IF uid # None THEN uid ELSE name,
                              !.out = Registry_getbyname_outcome(reg, name, uid),
                              !.ret = IF Registry_getbyname(reg, name, uid) = NoObj THEN None
                                      ELSE ObjV(Registry_getbyname(reg, name, uid))]
    /\ UNCHANGED <<slots, alive, rs, reg, written, fn, factory>>

\* The schemas, uuids and names the registries are called with.
RegSchemas == {s1, s2, p1}
RegUuids == {StrV(UuidOf(s1)), StrV(UuidOf(s2)), StrV("zz")}
RegKeyNames == {StrV(""), StrV("a"), StrV("zz")}
RegisterCalls == ({"local"} \X RegSchemas) \cup {<<"global", p1>>}
UnregisterCalls ==
    ({"local"} \X RegUuids) \cup ({"global"} \X {StrV(UuidOf(P_x)), StrV(UuidOf(p1))})
RegGetCalls ==
    {<<None, None>>, <<StrV(""), None>>, <<StrV("a"), None>>, <<StrV("zz"), None>>,
     <<None, StrV(UuidOf(s1))>>, <<StrV("a"), StrV(UuidOf(s1))>>, <<None, StrV("zz")>>}

InitRegistry ==
    \E sname \in {"", "a"}, suuid \in {UuidOf(s2), UuidOf(s1)} : InitWith(sname, suuid)

NextRegistry ==
    \/ \E c \in RegisterCalls : DoRegister(c[1], c[2])
    \/ \E c \in UnregisterCalls : DoUnregister(c[1], c[2])
    \/ \E r \in RegNames, u \in RegUuids \cup {StrV(UuidOf(P_x))} : DoGetByUuid(r, u)
    \/ \E r \in RegNames, nm \in RegKeyNames : DoGetByName(r, nm)
    \/ \E s \in {s1, s2} : DoRegRegister(s)
    \/ \E c \in RegGetCalls : DoRegGetByName(c[1], c[2])

SpecRegistry == InitRegistry /\ [][NextRegistry]_vars

(***************************************************************************)
(* The table of schema classes by data type (registry.py:108-145, 203-225).*)
(***************************************************************************)
\* r.registercls(c, dts)
DoRegisterCls(r, c, dts) ==
    /\ rs' = [rs EXCEPT ![r].bytype = registercls(@, c, dts)]
    /\ last' = [NoCall EXCEPT !.op = "registercls", !.r = r, !.a = c]
    /\ UNCHANGED <<slots, alive, reg, written, fn, factory>>

\* r.unregistercls(schemacls=c, data_types=dts); v records the data type given.
DoUnregisterCls(r, c, dts) ==
    /\ rs' = [rs EXCEPT ![r].bytype = unregistercls(@, c, dts)]
    /\ last' = [NoCall EXCEPT !.op = "unregistercls", !.r = r, !.a = c,
                              !.v = IF dts = <<>> THEN None ELSE ClassV(dts[1])]
    /\ UNCHANGED <<slots, alive, reg, written, fn, factory>>

\* r.getbydatatype(dt, besteffort=be)
DoGetByDataType(r, dt, be) ==
    /\ \E c \in getbydatatype(rs[r].bytype, dt, be) :
          last' = [NoCall EXCEPT !.op = "getbydatatype", !.r = r, !.a = dt, !.be = be,
                                 !.ret = IF c = "" THEN None ELSE ClassV(c)]
    /\ UNCHANGED <<slots, alive, rs, reg, written, fn, factory>>

\* r.fromobj(v, _besteffort=be), _force left False: the schema class found for
\* type(v) is called with default=v.  The instances constructed at run time
\* are Points, and v is taken among the values whose class is found to be
\* Point or is not found.
DoFromObj(r, v, be) ==
    \E c \in getbydatatype(rs[r].bytype, TypeOf(v), be) :
        /\ c \in {"", "Point"}
        /\ IF c = ""
           THEN /\ last' = [NoCall EXCEPT !.op = "fromobj", !.r = r, !.a = TypeOf(v),
                                          !.v = v, !.be = be]
                /\ UNCHANGED <<slots, alive, rs, reg, written, fn, factory>>
           ELSE /\ Fresh \ alive # {}
                /\ Construct(c, Min(Fresh \ alive), [a \in {"default"} |-> v],
                             [NoCall EXCEPT !.op = "fromobj", !.r = r, !.a = TypeOf(v),
                                            !.v = v, !.be = be])

\* The registrations, data types and objects the type table is called with.
ClsCalls ==
    {<<"Point", <<"Obj">> >>, <<"IntegerSchema", <<"int">> >>,
     <<"BooleanSchema", <<"bool">> >>, <<"NumberSchema", <<"Number">> >>}
UnregClsCalls ==
    {<<"IntegerSchema", <<>> >>, <<"NumberSchema", <<>> >>, <<"", <<"Obj">> >>,
     <<"", <<"bool">> >>}
DataTypeArgs == {"bool", "int", "str", "Obj", "Test", "NoneType"}
FromObjArgs == {ObjV(o1), ObjV(t1), StrV("a"), None}

NextTypes ==
    \/ \E c \in ClsCalls : DoRegisterCls("local", c[1], c[2])
    \/ \E c \in UnregClsCalls : DoUnregisterCls("local", c[1], c[2])
    \/ \E r \in RegNames, dt \in DataTypeArgs, be \in BOOLEAN : DoGetByDataType(r, dt, be)
    \/ \E v \in FromObjArgs, be \in BOOLEAN : DoFromObj("local", v, be)

SpecTypes == Init /\ [][NextTypes]_vars

(***************************************************************************)
(* Actions on the content of a class (base.py:260-274, 289-358).           *)
(***************************************************************************)
\* updatecontent(Conf); objs records Conf.getschemas() after the call.
DoUpdateContent ==
    /\ \A i \in DOMAIN ConfNames : NextMade(alive, ConfNames[i]) # NoObj
    /\ Cardinality({i \in DOMAIN OwnNames : slots[Conf][OwnNames[i]].k = "this"})
            <= Cardinality({i \in DOMAIN ThisPool : ThisPool[i] \notin alive})
    /\ \E st \in {updatecontent([sl |-> slots, al |-> alive, g |-> rs, out |-> "ok",
                                 ro |-> {}, stop |-> FALSE], 1)} :
           /\ slots' = st.sl
           /\ alive' = st.al
           /\ rs' = st.g
           /\ last' = [NoCall EXCEPT !.op = "updatecontent", !.o = Conf, !.out = st.out,
                                     !.objs = {ConfSchemas(st.sl)[n] : n \in DOMAIN ConfSchemas(st.sl)}]
    /\ UNCHANGED <<reg, written, fn, factory>>

\* updatecontent(Conf) for a class Conf that rejects the assignment of the
\* members ro (setattr raises AttributeError or TypeError for them).
DoUpdateContentLocked(ro) ==
    /\ \A i \in DOMAIN ConfNames : NextMade(alive, ConfNames[i]) # NoObj
    /\ Cardinality({i \in DOMAIN OwnNames : slots[Conf][OwnNames[i]].k = "this"})
            <= Cardinality({i \in DOMAIN ThisPool : ThisPool[i] \notin alive})
    /\ \E st \in {updatecontent([sl |-> slots, al |-> alive, g |-> rs, out |-> "ok",
                                 ro |-> ro, stop |-> FALSE], 1)} :
           /\ slots' = st.sl
           /\ alive' = st.al
           /\ rs' = st.g
           /\ last' = [NoCall EXCEPT !.op = "updatecontent locked", !.o = Conf, !.out = st.out,
                                     !.dmp = ro,
                                     !.objs = {ConfSchemas(st.sl)[n] : n \in DOMAIN ConfSchemas(st.sl)}]
    /\ UNCHANGED <<reg, written, fn, factory>>

\* setattr(Conf, name, v): the program declares or replaces a member.
DoSetMember(name, v) ==
    /\ slots' = [slots EXCEPT ![Conf] = SetKey(@, name, v)]
    /\ last' = [NoCall EXCEPT !.op = "setmember", !.o = Conf, !.a = name, !.v = v]
    /\ UNCHANGED <<alive, rs, reg, written, fn, factory>>

\* Conf.getschemas()
DoGetSchemas ==
    /\ last' = [NoCall EXCEPT !.op = "getschemas", !.o = Conf,
                              !.objs = {ConfSchemas(slots)[n] : n \in DOMAIN ConfSchemas(slots)}]
    /\ UNCHANGED <<slots, alive, rs, reg, written, fn, factory>>

\* The values the members of Conf are declared with.
MemberVals(name) ==
    CASE name = "a" -> {IntV(1), DynV(IntV(1)), None}
      [] name = "default" -> {IntV(0), None, ObjV(s2)}
      [] OTHER -> {ObjV(s1), ObjV(s2), DynV(ObjV(s2))}

NextContent ==
    \/ DoUpdateContent
    \/ \E ro \in (SUBSET {ConfNames[i] : i \in DOMAIN ConfNames}) \ {{}} :
            DoUpdateContentLocked(ro)
    \/ \E i \in DOMAIN ConfNames : \E v \in MemberVals(ConfNames[i]) :
            DoSetMember(ConfNames[i], v)
    \/ DoGetSchemas

SpecContent == Init /\ [][NextContent]_vars

\* The values the members of a class that refers to itself are declared with.
PlaceholderVals(name) ==
    CASE name = "a" -> {IntV(1), ThisV("test", FALSE), ThisV("", TRUE)}
      [] name = "default" -> {IntV(0)}
      [] OTHER -> {ObjV(s1), DynV(ObjV(s2)), ThisV("test", FALSE)}

NextPlaceholder ==
    \/ DoUpdateContent
    \/ \E i \in DOMAIN ConfNames : \E v \in PlaceholderVals(ConfNames[i]) :
            DoSetMember(ConfNames[i], v)
    \/ DoGetSchemas

SpecPlaceholder == Init /\ [][NextPlaceholder]_vars

(***************************************************************************)
(* Actions on a schema with custom accessors (test/base.py:266-327).  The  *)
(* class Test declares the attribute once; t1 is its instance.             *)
(***************************************************************************)
\* Test.test = Schema(fget=.., fset=.., fdel=.., default=dflt), each accessor
\* given (TRUE) or not.
DoDeclareCustom(g, s, d, dflt) ==
    /\ T_custom \notin alive
    /\ slots' = [slots EXCEPT ![T_custom] =
            [key \in {"_name", "_uuid", "_nullable", "_default", "_fget", "_fset", "_fdel"} |->
                CASE key = "_fget" -> IF g THEN StrV("fget") ELSE None
                  [] key = "_fset" -> IF s THEN StrV("fset") ELSE None
                  [] key = "_fdel" -> IF d THEN StrV("fdel") ELSE None
                  [] OTHER -> MkSchema("", UuidOf(T_custom), TRUE, dflt)[key]]]
    /\ alive' = alive \cup {T_custom}
    /\ last' = [NoCall EXCEPT !.op = "declare custom", !.o = T_custom, !.v = dflt]
    /\ UNCHANGED <<rs, reg, written, fn, factory>>

\* t1.test; v records what the custom getter returns, Absent without one.
DoGetCustom ==
    /\ T_custom \in alive
    /\ last' = [NoCall EXCEPT !.op = "get custom", !.o = t1,
                              !.v = IF HasCustom(slots, T_custom, "_fget")
                                    THEN fget(slots, t1) ELSE Absent,
                              !.ret = _Schema_getter(slots, T_custom, t1)]
    /\ UNCHANGED <<slots, alive, rs, reg, written, fn, factory>>

\* t1.test = v
DoSetCustom(v) ==
    /\ T_custom \in alive
    /\ slots' = _Schema_setter(slots, T_custom, t1, v)
    /\ last' = [NoCall EXCEPT !.op = "set custom", !.o = t1, !.v = v,
                              !.out = SetOutcome(slots, T_custom, t1, v)]
    /\ UNCHANGED <<alive, rs, reg, written, fn, factory>>

\* del t1.test
DoDeleteCustom ==
    /\ T_custom \in alive
    /\ slots' = _Schema_deleter(slots, T_custom, t1)
    /\ last' = [NoCall EXCEPT !.op = "delete custom", !.o = t1,
                              !.out = _Schema_DelOutcome(slots, T_custom, t1)]
    /\ UNCHANGED <<alive, rs, reg, written, fn, factory>>

\* The values given to the attribute and as its default.
CustomVals == {None, IntV(1), ObjV(s1), DynV(ObjV(s2))}

NextCustom ==
    \/ \E g, s, d \in BOOLEAN : \E dflt \in {None, ObjV(s2)} : DoDeclareCustom(g, s, d, dflt)
    \/ DoGetCustom
    \/ \E v \in CustomVals : DoSetCustom(v)
    \/ DoDeleteCustom

SpecCustom == Init /\ [][NextCustom]_vars

(***************************************************************************)
(* Actions on a RefSchema (base.py:277-286).                               *)
(***************************************************************************)
\* s._validate(data=d, owner=w), as the setter of s calls it for the
\* container w (base.py:181).
DoValidateOwner(s, d, w) ==
    /\ last' = [NoCall EXCEPT !.op = "_validate", !.o = s, !.v = d, !.w = w,
                              !.out = Validate(slots, s, d, w, MaxDepth)]
    /\ UNCHANGED <<slots, alive, rs, reg, written, fn, factory>>

\* r1.ref = v
DoSetRef(v) ==
    /\ slots' = _setter(slots, ClassAttrs(Cls(r1))["ref"], r1, v)
    /\ last' = [NoCall EXCEPT !.op = "set", !.o = r1, !.a = "ref", !.v = v,
                              !.out = SetOutcome(slots, ClassAttrs(Cls(r1))["ref"], r1, v)]
    /\ UNCHANGED <<alive, rs, reg, written, fn, factory>>

\* s1.nullable = v
DoSetNullable(v) ==
    /\ slots' = _setter(slots, ClassAttrs(Cls(s1))["nullable"], s1, v)
    /\ last' = [NoCall EXCEPT !.op = "set", !.o = s1, !.a = "nullable", !.v = v,
                              !.out = SetOutcome(slots, ClassAttrs(Cls(s1))["nullable"], s1, v)]
    /\ UNCHANGED <<alive, rs, reg, written, fn, factory>>

\* The values r1.ref is given, the RefSchemas validated, and the data and the
\* owners they are given.
RefVals == {None, ObjV(s1), ObjV(p1), ObjV(D_default), ObjV(r1), IntV(1)}
RefSchemas == {r1, D_default}
RefData == {None, IntV(1), ObjV(s2), ObjV(o1)}
RefOwners == {NoObj, s1, p1, r1, o1}

NextRef ==
    \/ \E s \in RefSchemas, d \in RefData, w \in RefOwners : DoValidateOwner(s, d, w)
    \/ \E v \in RefVals : DoSetRef(v)
    \/ \E v \in {BoolV(TRUE), BoolV(FALSE)} : DoSetNullable(v)

SpecRef == Init /\ [][NextRef]_vars

\* FunctionSchema._getparams_rtype(f)
DoDeriveParams(f) ==
    /\ last' = [NoCall EXCEPT !.op = "_getparams_rtype", !.fun = f,
                              !.pk = _getparams_rtype(rs["global"].bytype, f).params,
                              !.ret = StrV(_getparams_rtype(rs["global"].bytype, f).rtype)]
    /\ UNCHANGED <<slots, alive, rs, reg, written, fn, factory>>

\* schema = FunctionSchema(name=name, default=f), or FunctionSchema(name=name)
\* for NoFunction
DoConstructFunction(name, f) ==
    /\ fn' = NewFunctionSchema(name, f)
    /\ last' = [NoCall EXCEPT !.op = "FunctionSchema", !.fun = f]
    /\ UNCHANGED <<slots, alive, rs, reg, written, factory>>

\* schema.default = f
DoSetFunction(f) ==
    /\ Len(fn.prm) + Len(f.args) <= MaxParams
    /\ \E st \in {SetFunctionDefault(fn, rs["global"].bytype, f)} :
          /\ fn' = st
          /\ last' = [NoCall EXCEPT !.op = "set", !.a = "default", !.fun = f, !.out = st.out]
    /\ UNCHANGED <<slots, alive, rs, reg, written, factory>>

\* schema._validate(data=f, owner=None)
DoValidateFunction(f) ==
    /\ last' = [NoCall EXCEPT !.op = "_validate", !.fun = f,
                              !.out = FunctionSchema_validate(fn, rs["global"].bytype, f)]
    /\ UNCHANGED <<slots, alive, rs, reg, written, fn, factory>>

NextFunction ==
    \/ \E f \in Functions : DoDeriveParams(f)
    \/ \E f \in Functions : DoValidateFunction(f)
    \/ \E name \in {"", "f"}, f \in Functions \cup {NoFunction} : DoConstructFunction(name, f)
    \/ \E f \in Functions : DoSetFunction(f)

SpecFunction == Init /\ [][NextFunction]_vars

(***************************************************************************)
(* The schema factory.                                                     *)
(***************************************************************************)
\* The resources and the maker types of test/factory.py:55-59.
Resources == {StrV("test"), IntV(2)}
MakerTypes == {"str", "int"}

\* factory.registermaker(name=name, maker=maker(m))
DoRegisterMaker(m, name) ==
    /\ factory' = registermaker(factory, m, name)
    /\ last' = [NoCall EXCEPT !.op = "registermaker", !.a = name]
    /\ UNCHANGED <<slots, alive, rs, reg, written, fn>>

\* factory.unregistermaker(name)
DoUnregisterMaker(name) ==
    /\ factory' = unregistermaker(factory, name).fac
    /\ last' = [NoCall EXCEPT !.op = "unregistermaker", !.a = name,
                              !.out = unregistermaker(factory, name).out]
    /\ UNCHANGED <<slots, alive, rs, reg, written, fn>>

\* factory.getschema(resource, cache)
DoGetSchema(resource, cache) ==
    /\ \E result \in Made_by(factory, resource) :
          \E got \in {SchemaFactory_getschema(factory, resource, cache, result)} :
              /\ factory' = got.fac
              /\ last' = [NoCall EXCEPT !.op = "SchemaFactory.getschema", !.v = resource,
                                        !.be = cache, !.out = got.out, !.ret = got.ret]
    /\ UNCHANGED <<slots, alive, rs, reg, written, fn>>

\* getschema(resource, cache), the function of the module
DoModuleGetSchema(resource, cache) ==
    /\ \E result \in Made_by(factory, resource) :
          \E got \in {getschema(factory, resource, cache, result)} :
              /\ factory' = got.fac
              /\ last' = [NoCall EXCEPT !.op = "getschema", !.v = resource,
                                        !.be = cache, !.out = got.out, !.ret = got.ret]
    /\ UNCHANGED <<slots, alive, rs, reg, written, fn>>

NextFactory ==
    \/ \E m \in MakerTypes, name \in MakerTypes : DoRegisterMaker(m, name)
    \/ \E name \in MakerTypes : DoUnregisterMaker(name)
    \/ \E resource \in Resources, cache \in BOOLEAN : DoGetSchema(resource, cache)
    \/ \E resource \in Resources, cache \in BOOLEAN : DoModuleGetSchema(resource, cache)

SpecFactory == Init /\ [][NextFactory]_vars

C3_Stated ==
    (last.op = "validate" /\ Required(Cls(last.o)) # {} /\ last.v.k = "obj")
        => /\ (\E a \in Required(Cls(last.o)) : ~HasAttr(slots, last.v.n, a))
                => last.out = "ValueError"
           /\ (\E a \in DOMAIN getschemas(Cls(last.o)) :
                    /\ HasAttr(slots, last.v.n, a)
                    /\ validate(slots, getschemas(Cls(last.o))[a],
                                GetAttr(slots, last.v.n, a)) # "ok")
                => last.out # "ok"

\* C4: o.a = v calls a DynamicValue, validates the result and stores it when
\* the validation succeeds; when it fails the assignment raises TypeError and
\* the instance dictionaries are left as they were.
C4_SetValidates ==
    [][last'.op = "set" =>
        IF Validate(slots, ClassAttrs(Cls(last'.o))[last'.a], Resolve(last'.v),
                    last'.o, MaxDepth) = "ok"
        THEN /\ last'.out = "ok"
             /\ GetAttr(slots', last'.o, last'.a) = Resolve(last'.v)
        ELSE /\ last'.out = "TypeError"
             /\ slots' = slots]_vars

\* p1.x held 1 and an assignment to it was refused: it still holds 1.
C4_Witness ==
    /\ last.op = "set" /\ last.o = p1 /\ last.a = "x"
    /\ last.out = "TypeError"
    /\ GetAttr(slots, p1, "x") = IntV(1)

\* C5 as stated: o.a returns the value of the last successful assignment made
\* since the last deletion, and the resolved default of the schema when there
\* is none.
C5_Stated ==
    last.op = "get"
        => last.ret = (IF written[<<last.o, last.a>>] # Absent
                       THEN written[<<last.o, last.a>>]
                       ELSE Resolve(At(slots, ClassAttrs(Cls(last.o))[last.a])["_default"]))

RECURSIVE Holder(_, _, _)
\* The schema that holds the last key of a path of a dump of o.
Holder(sl, o, path) ==
    IF Len(path) = 1 THEN o
    ELSE Holder(sl, Resolve(GetAttr(sl, o, Head(path))).n, Tail(path))

\* The value a dump shows for the attribute a of the schema h.
Shown(sl, h, a) ==
    IF Resolve(GetAttr(sl, h, a)).k = "obj"
       /\ IsSubclass(Cls(Resolve(GetAttr(sl, h, a)).n), "_Schema")
    THEN Mapping ELSE Resolve(GetAttr(sl, h, a))

C7_RoundTrip ==
    last.op = "rebuild"
        => /\ last.out = "ok"
           /\ dump(slots, last.ret.n, MaxDepth) = dump(slots, last.o, MaxDepth)

\* p1 was rebuilt from its dump while p1.x was 1: the new Point has x = 1.
C7_Witness ==
    /\ last.op = "rebuild" /\ last.o = p1 /\ last.out = "ok"
    /\ GetAttr(slots, p1, "x") = IntV(1)
    /\ GetAttr(slots, last.ret.n, "x") = IntV(1)

(***************************************************************************)
(* Properties of the registries.                                           *)
(***************************************************************************)
\* The schema s is in a name bucket of the registry g.
Held(g, s) == \E nm \in DOMAIN g.byname : s \in g.byname[nm]

\* The schema s is in the bucket of its name in the registry g.
InBucket(g, sl, s) ==
    /\ GetAttr(sl, s, "name") \in DOMAIN g.byname
    /\ s \in g.byname[GetAttr(sl, s, "name")]

\* C8 as stated: after r.register(s), r.getbyuuid(s.uuid) is s and
\* r.getbyname(s.name) includes s; after r.unregister(s.uuid) the uuid is no
\* longer registered and s is no longer in the bucket of its name, while the
\* other schemas keep their uuid entry and their place in the buckets.
C8_Stated ==
    [][/\ last'.op = "register"
            => /\ GetAttr(slots, last'.o, "uuid") \in DOMAIN rs'[last'.r].byuuid
               /\ rs'[last'.r].byuuid[GetAttr(slots, last'.o, "uuid")] = last'.o
               /\ InBucket(rs'[last'.r], slots, last'.o)
       /\ (last'.op = "unregister" /\ last'.out = "ok")
            => /\ last'.v \notin DOMAIN rs'[last'.r].byuuid
               /\ \A s \in Objs \ Fresh :
                    IF GetAttr(slots, s, "uuid") = last'.v
                    THEN Held(rs[last'.r], s) => ~InBucket(rs'[last'.r], slots, s)
                    ELSE /\ Held(rs[last'.r], s) => InBucket(rs'[last'.r], slots, s)
                         /\ \A u \in DOMAIN rs[last'.r].byuuid :
                                rs[last'.r].byuuid[u] = s
                                    => /\ u \in DOMAIN rs'[last'.r].byuuid
                                       /\ rs'[last'.r].byuuid[u] = s]_vars

\* C9: getbyuuid, getbyname and unregister of SchemaRegistry, and getbyname of
\* Registry, called with a uuid or a name that is not registered raise
\* KeyError and leave the tables of the registries as they were.
C9_UnknownKeyRaises ==
    [][/\ (last'.op \in {"getbyuuid", "unregister"}
           /\ last'.v \notin DOMAIN rs[last'.r].byuuid)
            => (last'.out = "KeyError" /\ rs' = rs /\ reg' = reg)
       /\ (last'.op = "getbyname" /\ last'.v \notin DOMAIN rs[last'.r].byname)
            => (last'.out = "KeyError" /\ rs' = rs /\ reg' = reg)
       /\ (last'.op = "reg.getbyname" /\ last'.a = "uid" /\ last'.v \notin DOMAIN reg.byuid)
            => (last'.out = "KeyError" /\ rs' = rs /\ reg' = reg)
       /\ (last'.op = "reg.getbyname" /\ last'.a = "name"
           /\ last'.v \notin DOMAIN reg.byname)
            => (last'.out = "KeyError" /\ rs' = rs /\ reg' = reg)]_vars

\* An unknown uuid was refused by a registry that holds schemas.
C9_Witness ==
    /\ last.op = "unregister" /\ last.r = "local" /\ last.v = StrV("zz")
    /\ last.out = "KeyError"
    /\ DOMAIN rs["local"].byuuid # {}

\* No schema class is found for the data type dt: none is registered for dt
\* itself nor, with the best effort, for a class dt inherits from.
NoMatch(bt, dt, be) ==
    /\ \A i \in DOMAIN bt : bt[i][1] # dt
    /\ be => \A i \in DOMAIN bt : ~IsSubclass(dt, bt[i][1])

\* C10 as stated: a lookup by data type that finds no schema class raises a
\* lookup error.
C10_Stated ==
    (last.op \in {"getbydatatype", "fromobj"}
     /\ NoMatch(rs[last.r].bytype, last.a, last.be))
        => last.out = "KeyError"

\* C10: a lookup by data type that finds no schema class (getbydatatype, and
\* fromobj without _force) raises nothing and returns None.
C10_NoneOnMiss ==
    (last.op \in {"getbydatatype", "fromobj"}
     /\ NoMatch(rs[last.r].bytype, last.a, last.be))
        => (last.out = "ok" /\ last.ret = None)

\* The best effort found no schema class for Test in a registry that holds
\* classes for other data types.
C10_Witness ==
    /\ last.op = "getbydatatype" /\ last.r = "global" /\ last.a = "Test" /\ last.be
    /\ last.ret = None
    /\ rs["global"].bytype # <<>>

(***************************************************************************)
(* Cascading registration.                                                 *)
(***************************************************************************)
\* The nested schemas of s, at any depth down to fuel.
RECURSIVE NestedAll(_, _)
NestedAll(s, fuel) ==
    IF fuel = 0 THEN {}
    ELSE LET inner == {schemas(s)[i] : i \in DOMAIN schemas(s)}
         IN inner \cup UNION {NestedAll(n, fuel - 1) : n \in inner}

\* C11 as stated: after r.register(s), every nested schema of s, at any
\* depth, is registered under its uuid in the registry r itself.
C11_Stated ==
    [][last'.op = "register"
        => \A n \in NestedAll(last'.o, MaxDepth) :
                GetAttr(slots, n, "uuid") \in DOMAIN rs'[last'.r].byuuid]_vars

(***************************************************************************)
(* Properties of the lookup by data type.                                  *)
(***************************************************************************)
\* C12 as stated: getbydatatype returns the schema class registered for the
\* data type itself when there is one; otherwise, with the best effort, the
\* class of the first data type, in the order of the registrations, that the
\* queried type inherits from; otherwise None.
C12_Stated ==
    last.op = "getbydatatype"
        => LET bt == rs[last.r].bytype
           IN  IF ExactMatch(bt, last.a) # ""
               THEN last.ret = ClassV(ExactMatch(bt, last.a))
               ELSE IF last.be /\ BestEffortMatches(bt, last.a) # {}
               THEN last.ret = ClassV(bt[Min(BestEffortMatches(bt, last.a))][2])
               ELSE last.ret = None

\* The registered data types nearest to dt: those dt inherits from that no
\* other registered supertype of dt inherits from.
Nearest(bt, dt) ==
    {i \in BestEffortMatches(bt, dt) :
        \A j \in BestEffortMatches(bt, dt) : IsSubclass(bt[i][1], bt[j][1])}

\* C13 as stated: a best-effort lookup of a data type that is not registered
\* returns the schema class of the nearest registered ancestor, whatever the
\* order of the registrations (for bool, the class registered for int and not
\* the one registered for Number).
C13_Stated ==
    (last.op = "getbydatatype" /\ last.be
     /\ ExactMatch(rs[last.r].bytype, last.a) = ""
     /\ BestEffortMatches(rs[last.r].bytype, last.a) # {})
        => \E i \in Nearest(rs[last.r].bytype, last.a) :
                last.ret = ClassV(rs[last.r].bytype[i][2])

\* The <<data type, schema class>> pairs of a table.
Pairs(bt) == {bt[i] : i \in DOMAIN bt}

\* The data types given to the last unregistercls.
GivenTypes(call) == IF call.v = None THEN {} ELSE {call.v.s}

\* C14: unregistercls of a schema class removes exactly the data types mapped
\* to that class (and the data types it is given) and leaves every other
\* registration as it was; when int was mapped to the class unregistered and
\* Number, mapped to another class, is the registered type left that int
\* inherits from, the lookup of int falls back on the class of Number.
C14_UnregisterCls ==
    [][last'.op = "unregistercls"
        => LET bt == rs[last'.r].bytype
               after == rs'[last'.r].bytype
           IN  /\ Pairs(after) = {p \in Pairs(bt) :
                                    p[2] # last'.a /\ p[1] \notin GivenTypes(last')}
               /\ \A r \in RegNames \ {last'.r} : rs'[r] = rs[r]
               /\ rs'[last'.r].byuuid = rs[last'.r].byuuid
               /\ rs'[last'.r].byname = rs[last'.r].byname
               /\ (/\ last'.a # "" /\ ExactMatch(bt, "int") = last'.a
                   /\ ExactMatch(bt, "Number") \notin {"", last'.a}
                   /\ "Number" \notin GivenTypes(last')
                   /\ \A i \in BestEffortMatches(bt, "int") : bt[i][1] \in {"int", "Number"})
                    => getbydatatype(after, "int", TRUE) = {ExactMatch(bt, "Number")}]_vars

\* The class of int was unregistered from a table that holds classes for
\* bool and for Number: bool keeps its class and int falls back on Number's.
C14_Witness ==
    /\ last.op = "unregistercls" /\ last.r = "local" /\ last.a = "IntegerSchema"
    /\ ExactMatch(rs["local"].bytype, "int") = ""
    /\ ExactMatch(rs["local"].bytype, "bool") = "BooleanSchema"
    /\ ExactMatch(rs["local"].bytype, "Number") = "NumberSchema"
    /\ getbydatatype(rs["local"].bytype, "int", TRUE) = {"NumberSchema"}

(***************************************************************************)
(* Properties of the content resolution.                                   *)
(***************************************************************************)
\* C15: updatecontent keeps every member of the class that is already a
\* schema as the same object, and a call that follows another call with
\* nothing in between changes nothing: the members, the nested schemas
\* getschemas gives, the objects made and their dictionaries are those the
\* first call left.
C15_Idempotent ==
    [][last'.op = "updatecontent"
        => /\ \A n \in DOMAIN slots[Conf] :
                IsResolved(n, slots[Conf][n]) => slots'[Conf][n] = slots[Conf][n]
           /\ last.op = "updatecontent"
                => /\ slots' = slots
                   /\ alive' = alive
                   /\ ConfSchemas(slots') = ConfSchemas(slots)
                   /\ last'.objs = last.objs]_vars

\* updatecontent has made a schema for each of the plain members a and
\* default of Conf and has named the schema that was held as member s.
C15_Witness ==
    /\ last.op = "updatecontent" /\ last.out = "ok"
    /\ slots[Conf]["a"] = ObjV(C_a1)
    /\ slots[Conf]["default"] = ObjV(C_d1)
    /\ slots[Conf]["s"] = ObjV(s1)
    /\ GetAttr(slots, s1, "name") = StrV("s")
    /\ {C_a1, C_d1, s1} \subseteq last.objs

(***************************************************************************)
(* Properties of the constructor.                                          *)
(***************************************************************************)
\* The keyword arguments of the last construction.
KwOf(call) ==
    IF call.a = "Lazy"
    THEN (IF call.v = Absent THEN EmptyFn ELSE [a \in {"default"} |-> call.v])
    ELSE KwChoices[call.a]

\* The value the class declares for attribute a: the default of the schema
\* the content resolution made of it, a DynamicValue being called; the
\* declared uuid is a DynamicValue that gives each instance its own uuid.
DeclaredValue(sl, c, o, a) ==
    IF a = "uuid" THEN StrV(UuidOf(o))
    ELSE Resolve(At(sl, ClassAttrs(c)[a])["_default"])

\* C16 as stated: after cls(**kw) every public attribute of the new instance,
\* default included, has the keyword argument when one is given (None
\* included; a DynamicValue as given or called), and otherwise the value the
\* class declares, with a DynamicValue called.
C16_Stated ==
    (last.op = "construct" /\ last.out = "ok")
        => \A a \in DOMAIN ClassAttrs(Cls(last.ret.n)) :
                IF a \in DOMAIN KwOf(last)
                THEN GetAttr(slots, last.ret.n, a) \in {KwOf(last)[a], Resolve(KwOf(last)[a])}
                ELSE GetAttr(slots, last.ret.n, a)
                        = DeclaredValue(slots, Cls(last.ret.n), last.ret.n, a)

(***************************************************************************)
(* Properties of the equality of schemas.                                  *)
(***************************************************************************)
\* The instances a and b have the same nested schemas, by name, with equal
\* values.
SameContent(sl, a, b) ==
    /\ DOMAIN getschemas(Cls(a)) = DOMAIN getschemas(Cls(b))
    /\ \A n \in DOMAIN getschemas(Cls(a)) : GetAttr(sl, a, n) = GetAttr(sl, b, n)

\* C17 as stated: a == b between two schema instances is True when a is b or
\* when they have the same nested schemas with equal values, and False
\* otherwise.
C17_Stated ==
    (last.op = "eq" /\ IsSchemaObj(last.v.n))
        => /\ last.out = "ok"
           /\ last.ret = BoolV(last.o = last.v.n \/ SameContent(slots, last.o, last.v.n))

(***************************************************************************)
(* Properties of RefSchema.                                                *)
(***************************************************************************)
\* C18 as stated: s._validate(data, owner) of a RefSchema s has the outcome of
\* validating the data with s.ref alone when ref is set, with the owner alone
\* when ref is unset, and fails when there is neither.
C18_Stated ==
    (last.op = "_validate" /\ IsSubclass(Cls(last.o), "RefSchema"))
        => IF GetAttr(slots, last.o, "ref") # None
           THEN last.out = validate(slots, GetAttr(slots, last.o, "ref").n, last.v)
           ELSE IF IsSchemaObj(last.w)
           THEN last.out = validate(slots, last.w, last.v)
           ELSE last.out # "ok"

\* C18: s._validate(data, owner) of a RefSchema s has the outcome of
\* ref._validate(data, owner) when ref is set and of
\* owner._validate(data, owner) when ref is unset, the owner being handed on:
\* a ref or an owner that is itself a RefSchema without ref delegates to that
\* owner in turn.  With neither a ref nor an owner that is a schema the call
\* fails.
C18_Delegates ==
    (last.op = "_validate" /\ IsSubclass(Cls(last.o), "RefSchema"))
        => IF GetAttr(slots, last.o, "ref") # None
           THEN last.out = Validate(slots, GetAttr(slots, last.o, "ref").n, last.v,
                                    last.w, MaxDepth)
           ELSE IF IsSchemaObj(last.w)
           THEN last.out = Validate(slots, last.w, last.v, last.w, MaxDepth)
           ELSE last.out # "ok"

\* r1, whose ref is unset, refused None for the owner s1, which is not
\* nullable, where s1 itself accepts a schema.
C18_Witness ==
    /\ last.op = "_validate" /\ last.o = r1 /\ last.w = s1 /\ last.v = None
    /\ GetAttr(slots, r1, "ref") = None
    /\ ~Nullable(slots, s1)
    /\ last.out = "TypeError"
    /\ validate(slots, s1, ObjV(s2)) = "ok"

\* f(a, b, c=3, *args, **kwargs), without documentation.
ExampleFunction == Function(1, "f", 3, 1, TRUE)

\* The entries the derivation has for the parameters of a function when *args
\* and **kwargs count as one more parameter after the named ones.
WithVariadicPair(function) ==
    Len(function.args) + (IF function.varargs # "" \/ function.keywords # "" THEN 1 ELSE 0)

\* The entries of pk for the named parameters of the function are in the order
\* of the signature, with hasvalue exactly in the defaulted suffix and the
\* default value there.
NamedEntries(function, pk) ==
    /\ Len(pk) >= Len(function.args)
    /\ \A i \in 1 .. Len(function.args) :
          /\ pk[i].name = function.args[i]
          /\ pk[i].hasvalue = (i > Len(function.args) - Len(function.defaults))
          /\ pk[i].hasvalue
                => pk[i].default
                     = function.defaults[i - (Len(function.args) - Len(function.defaults))]

\* C19 as stated: the derivation gives one entry per parameter in signature
\* order, the variadic pair counted as a parameter (four entries for
\* f(a, b, c=3, *args, **kwargs)), with hasvalue true exactly in the defaulted
\* suffix and the default value there.
C19_Stated ==
    last.op = "_getparams_rtype"
        => /\ Len(last.pk) = WithVariadicPair(last.fun)
           /\ NamedEntries(last.fun, last.pk)

\* C19: the derivation gives exactly one entry per named parameter, in
\* signature order, with hasvalue true exactly in the defaulted suffix and the
\* default value there, and no entry for *args and **kwargs: three entries
\* for f(a, b, c=3, *args, **kwargs), a and b without a value and c with the
\* default 3.
C19_NamedOnly ==
    last.op = "_getparams_rtype"
        => /\ Len(last.pk) = Len(last.fun.args)
           /\ NamedEntries(last.fun, last.pk)
           /\ last.fun = ExampleFunction
                => /\ Len(last.pk) = 3
                   /\ ~last.pk[1].hasvalue /\ ~last.pk[2].hasvalue
                   /\ last.pk[3].hasvalue /\ last.pk[3].default = IntV(3)

C19_Witness ==
    /\ last.op = "_getparams_rtype"
    /\ last.fun = ExampleFunction
    /\ Len(last.pk) = 3
    /\ last.pk[3].name = "c"

\* The names, defaults and hasvalue of the params of a FunctionSchema, in order.
ParamView(st) ==
    [i \in 1 .. Len(st.params) |->
        [name |-> st.prm[st.params[i]].name,
         default |-> st.prm[st.params[i]].default,
         hasvalue |-> st.prm[st.params[i]].hasvalue]]

\* A FunctionSchema bound to the function: params and rtype are the ones
\* derived from it.
BoundTo(st, bt, function) ==
    /\ st.default = function
    /\ st.rtype = _getparams_rtype(bt, function).rtype
    /\ ParamView(st)
         = [i \in 1 .. Len(function.args) |->
              [name |-> _getparams_rtype(bt, function).params[i].name,
               default |-> _getparams_rtype(bt, function).params[i].default,
               hasvalue |-> _getparams_rtype(bt, function).params[i].hasvalue]]

\* C20 as stated: a FunctionSchema made without a callable has no params;
\* after a callable is assigned, params and rtype are the ones derived from
\* it; and assigning the same callable again succeeds and leaves the names,
\* defaults, hasvalue and length of params and rtype as they were after the
\* first assignment.
C20_Stated ==
    [][/\ (last'.op = "FunctionSchema" /\ last'.fun = NoFunction) => fn'.params = <<>>
       /\ (last'.op = "set" /\ last'.a = "default" /\ last'.out = "ok")
            => BoundTo(fn', rs["global"].bytype, last'.fun)
       /\ (/\ last.op = "set" /\ last.a = "default" /\ last.out = "ok"
           /\ last'.op = "set" /\ last'.a = "default" /\ last'.fun = last.fun)
            => /\ last'.out = "ok"
               /\ ParamView(fn') = ParamView(fn)
               /\ fn'.rtype = fn.rtype]_vars

\* The function diverges from the params the FunctionSchema holds: in the
\* number of parameters, or in the name or the default of one of them.
Diverges(st, bt, function) ==
    \/ Len(function.args) # Len(st.params)
    \/ \E i \in 1 .. Len(st.params) :
          \/ _getparams_rtype(bt, function).params[i].name # st.prm[st.params[i]].name
          \/ _getparams_rtype(bt, function).params[i].default # st.prm[st.params[i]].default

\* C21 as stated: validating a callable against a bound FunctionSchema raises
\* TypeError when its name differs from the name of the schema or when its
\* parameters diverge from the params of the schema, and validation leaves
\* params and rtype as they are.
C21_Stated ==
    [][(last'.op = "_validate" /\ last'.fun # NoFunction /\ fn.value # NoFunction)
         => /\ (last'.fun.name # fn.name \/ Diverges(fn, rs["global"].bytype, last'.fun))
                 => last'.out = "TypeError"
            /\ fn'.params = fn.params /\ fn'.prm = fn.prm /\ fn'.rtype = fn.rtype]_vars

\* Some registered maker accepts the resource.
Accepted(fac, resource) ==
    \E n \in DOMAIN fac._makers : maker(fac._makers[n], resource) # Absent

\* A call of getschema, of the factory or of the module.
IsGetSchema(call) == call.op \in {"SchemaFactory.getschema", "getschema"}

\* C22 as stated: a cached call returns the schema memoized for the resource,
\* whatever the makers are by then; a call with cache=False neither reads nor
\* writes the cache, and raises TypeError when no registered maker accepts the
\* resource; a resource that no maker accepts and that is not memoized raises
\* TypeError and is not memoized.
C22_Stated ==
    [][IsGetSchema(last')
        => /\ (last'.be /\ last'.v \in DOMAIN factory._schemasbyresource)
                => /\ last'.out = "ok"
                   /\ last'.ret = factory._schemasbyresource[last'.v]
           /\ (last'.be /\ last'.out = "ok")
                => /\ last'.v \in DOMAIN factory'._schemasbyresource
                   /\ factory'._schemasbyresource[last'.v] = last'.ret
           /\ ~last'.be
                => /\ factory'._schemasbyresource = factory._schemasbyresource
                   /\ ~Accepted(factory, last'.v) => last'.out = "TypeError"
           /\ (~Accepted(factory, last'.v) /\ last'.v \notin DOMAIN factory._schemasbyresource)
                => /\ last'.out = "TypeError"
                   /\ factory'._schemasbyresource = factory._schemasbyresource]_vars

\* C23 as stated: after a function with n named parameters is assigned to a
\* FunctionSchema, params holds n ParamSchemas named as the parameters in
\* signature order; the ParamSchemas that were at the first n positions are
\* the same objects as before, and nothing but the entries beyond position n
\* is removed.
C23_Stated ==
    [][(last'.op = "set" /\ last'.a = "default" /\ last'.out = "ok")
         => /\ Len(fn'.params) = Len(last'.fun.args)
            /\ \A i \in 1 .. Len(fn'.params) :
                  /\ i <= Len(last'.fun.args)
                  /\ fn'.prm[fn'.params[i]].name = last'.fun.args[i]
                  /\ i <= Len(fn.params) => fn'.params[i] = fn.params[i]
            /\ \A i \in 1 .. Len(fn.params) :
                  i <= Len(last'.fun.args) => i <= Len(fn'.params)]_vars

\* The member of Conf called name is one updatecontent resolves into a nested
\* schema: it is a schema or yields one, it is the member default, or a schema
\* class is found for its type.
Resolvable(sl, g, name) ==
    \/ IsResolved(name, Resolve(sl[Conf][name]))
    \/ name = "default"
    \/ obj2schema(g["global"], sl[Conf][name]) # ""

\* C24 as stated: when the class rejects the assignment of some members, these
\* members alone are skipped: every other public member that can be resolved
\* is a nested schema after the call.
C24_Stated ==
    [][(last'.op = "updatecontent locked" /\ last'.out = "ok")
         => \A n \in DOMAIN slots[Conf] \ last'.dmp :
                Resolvable(slots, rs, n) => IsResolved(n, slots'[Conf][n])]_vars

(***************************************************************************)
(* C25: content resolution replaces a This placeholder declared on the     *)
(* class by a new instance of that class constructed with exactly the      *)
(* arguments the placeholder carries (default and nullable read back as    *)
(* given); one instance is made, and the placeholder the new instance      *)
(* sees as its own member is kept as it is, not resolved in turn.          *)
(***************************************************************************)
C25_ThisResolved ==
    [][(last'.op = "updatecontent" /\ last'.out = "ok") =>
        \A i \in DOMAIN OwnNames :
            slots[Conf][OwnNames[i]].k = "this" =>
                LET this == slots[Conf][OwnNames[i]]
                    m == slots'[Conf][OwnNames[i]]
                IN  /\ m.k = "obj"
                    /\ m.n \notin alive
                    /\ Cls(m.n) = "Conf"
                    /\ GetAttr(slots', m.n, "default") = StrV(this.s)
                    /\ GetAttr(slots', m.n, "nullable") = BoolV(this.n = 1)
                    /\ slots'[m.n]["_" \o OwnNames[i]] = this
                    /\ {o \in alive' \ alive : Cls(o) = "Conf"} = {m.n}]_vars

\* Conf.a, declared as This(default='test', nullable=False), has been resolved.
C25_Witness ==
    /\ last.op = "updatecontent"
    /\ last.out = "ok"
    /\ slots[Conf]["a"].k = "obj"
    /\ Cls(slots[Conf]["a"].n) = "Conf"
    /\ slots[slots[Conf]["a"].n]["_a"] = ThisV("test", FALSE)
    /\ GetAttr(slots, slots[Conf]["a"].n, "default") = StrV("test")
    /\ GetAttr(slots, slots[Conf]["a"].n, "nullable") = BoolV(FALSE)

(***************************************************************************)
(* C26: a Get, a Set that passes validation and a Delete that finds the    *)
(* slot each tell a container that is a schema exactly once, naming the    *)
(* nested schema (and the value read or written), and the container is     *)
(* told after the slot is written or removed; a Set or Delete that raises  *)
(* tells nobody, and a container that is not a schema is never told.       *)
(***************************************************************************)
C26_NotifiedOnce ==
    [][last'.op \in {"get", "set", "delete"} =>
        LET o == last'.o
            n == ClassAttrs(Cls(o))[last'.a]
            ntf == last'.ntf
        IN  IF IsSchemaObj(o) /\ last'.out = "ok"
            THEN /\ Len(ntf) = 1
                 /\ ntf[1].schema = n
                 /\ last'.op = "get" =>
                        /\ ntf[1].kind = "_getvalue"
                        /\ ntf[1].value = last'.ret
                 /\ last'.op = "set" =>
                        /\ ntf[1].kind = "_setvalue"
                        /\ ntf[1].value = Resolve(last'.v)
                        /\ ntf[1].slot = Resolve(last'.v)
                        /\ slots'[o][_attrname(slots', n)] = Resolve(last'.v)
                 /\ last'.op = "delete" =>
                        /\ ntf[1].kind = "_delvalue"
                        /\ ntf[1].slot = Absent
                        /\ _attrname(slots', n) \notin DOMAIN slots'[o]
            ELSE ntf = <<>>]_vars

\* A Set on a container that is a schema has replaced the value and told it.
C26_Witness ==
    /\ last.op = "set"
    /\ IsSchemaObj(last.o)
    /\ last.out = "ok"
    /\ Len(last.ntf) = 1
    /\ last.ntf[1].slot = Resolve(last.v)
    /\ written[<<last.o, last.a>>] = Resolve(last.v)

(***************************************************************************)
(* C27: with a custom getter, Get returns what the custom getter returns,  *)
(* None included, whatever the private slot and the default hold; with a   *)
(* custom setter or deleter, Set and Delete run the custom function and    *)
(* leave the private slot as it was.                                       *)
(***************************************************************************)
C27_Stated ==
    [][/\ (last'.op = "get custom" /\ HasCustom(slots, T_custom, "_fget")) =>
            last'.ret = fget(slots, t1)
       /\ (last'.op = "set custom" /\ last'.out = "ok"
                /\ HasCustom(slots, T_custom, "_fset")) =>
            /\ slots'[t1] = SetKey(slots[t1], "_value", Resolve(last'.v))
            /\ _attrname(slots, T_custom) \notin DOMAIN slots'[t1]
       /\ (last'.op = "delete custom" /\ last'.out = "ok"
                /\ HasCustom(slots, T_custom, "_fdel")) =>
            slots'[t1] = DelKey(slots[t1], "_value")]_vars

\* The private slots of the schemas attached to the container o.
SlotsOf(sl, o) == {_attrname(sl, ClassAttrs(Cls(o))[a]) : a \in DOMAIN ClassAttrs(Cls(o))}

(***************************************************************************)
(* C28: the schemas attached to one container keep their values in slots   *)
(* that differ from each other and from every public attribute name, and a *)
(* Set or Delete through one attribute changes neither the value read      *)
(* through any other attribute of the container nor the default the        *)
(* schema itself holds.                                                    *)
(***************************************************************************)
C28_Stated ==
    /\ [](\A o \in {t1, p1} :
            /\ \A a, b \in DOMAIN ClassAttrs(Cls(o)) :
                a # b => _attrname(slots, ClassAttrs(Cls(o))[a])
                            # _attrname(slots, ClassAttrs(Cls(o))[b])
            /\ SlotsOf(slots, o) \cap DOMAIN ClassAttrs(Cls(o)) = {})
    /\ [][last'.op \in {"set", "delete"} =>
            /\ \A b \in DOMAIN ClassAttrs(Cls(last'.o)) \ {last'.a} :
                    GetAttr(slots', last'.o, b) = GetAttr(slots, last'.o, b)
            /\ At(slots', ClassAttrs(Cls(last'.o))[last'.a])["_default"]
                    = At(slots, ClassAttrs(Cls(last'.o))[last'.a])["_default"]]_vars

(***************************************************************************)
(* C29: register(schema) puts the schema under its uuid, in place of any   *)
(* schema registered there before, and in the bucket of its name; a schema *)
(* it replaces under the uuid is left in no name bucket; the call returns  *)
(* the schema registered under the uuid before, or None.  Registry of      *)
(* reg.py keeps its uid and name tables in step in the same way.           *)
(***************************************************************************)
C29_Stated ==
    [][/\ last'.op = "register" =>
            LET g == rs'[last'.r]
                old == Registered(rs[last'.r], slots, last'.o)
            IN  /\ g.byuuid[GetAttr(slots, last'.o, "uuid")] = last'.o
                /\ InBucket(g, slots, last'.o)
                /\ last'.ret = IF old = NoObj THEN None ELSE ObjV(old)
                /\ old \notin {NoObj, last'.o} => ~Held(g, old)
       /\ last'.op = "reg.register" =>
            LET u == GetAttr(slots, last'.o, "uuid")
            IN  /\ reg'.byuid[u] = last'.o
                /\ (u \in DOMAIN reg.byuid /\ reg.byuid[u] # last'.o) =>
                        \A nm \in DOMAIN reg'.byname : \A i \in DOMAIN reg'.byname[nm] :
                            reg'.byname[nm][i] # reg.byuid[u]]_vars

(***************************************************************************)
(* C30: in every SchemaRegistry, whatever was registered and unregistered, *)
(* a schema is in the bucket of its name exactly when the entry under its  *)
(* uuid is that schema, no bucket is empty, and unregister succeeds for    *)
(* every uuid of the uuid table.                                           *)
(***************************************************************************)
C30_Stated ==
    \A r \in RegNames :
        /\ \A s \in {o \in alive : IsSchemaObj(o)} :
                InBucket(rs[r], slots, s)
                    <=> /\ GetAttr(slots, s, "uuid") \in DOMAIN rs[r].byuuid
                        /\ rs[r].byuuid[GetAttr(slots, s, "uuid")] = s
        /\ \A nm \in DOMAIN rs[r].byname : rs[r].byname[nm] # {}
        /\ \A u \in DOMAIN rs[r].byuuid : UnregOutcome(rs[r], slots, u) = "ok"

TypeOK ==
    /\ alive \subseteq Objs
    /\ last.out \in {"ok", "TypeError", "ValueError", "AttributeError", "KeyError",
                     "RuntimeError", "UnboundLocalError"}

====
